---- MODULE Spec2Model ----
(***************************************************************************)
(* Master-side RS-485 transport: BusManager (request queue, reply          *)
(* correlation, timeouts) on top of RS485Handler (port, direction lines,   *)
(* reconnect).  One logical event loop: every action below is one handler  *)
(* run to its next suspension point (port open, write, drain, timer).      *)
(***************************************************************************)
EXTENDS Integers, Sequences, FiniteSets, TLC

\* ------------------------------------------------------------------------
\* Bounds of the model
\* ------------------------------------------------------------------------
MaxRequests == 2        \* request() calls per behaviour
MaxPorts == 2           \* SerialPort objects alive at a time
MaxBusPorts == 1        \* the same, where the port is never closed
MaxIdWindow == 3        \* request() calls per behaviour of SpecId
MaxFifoRequests == 3    \* request() calls per behaviour of SpecFifo
MaxNormRequests == 1    \* request() calls per behaviour of SpecNorm
MaxNow == 8             \* the clock stops at this time
MaxLinkRequests == 1    \* request() calls per behaviour of SpecLink
MaxDestroyRequests == 2 \* request() calls per behaviour of SpecDestroy
MaxLineRequests == 1    \* request() calls per behaviour of SpecLines
MaxCorrelationRequests == 2  \* request() calls per behaviour of SpecCorrelation
MaxHardwareRequests == 1  \* request() calls per behaviour of SpecHardware
MaxFrameRequests == 1  \* request() calls per behaviour of SpecFrame

\* Program constants
IdModulus == 1000       \* busManager.ts:114-115
IdWidth == 3            \* busManager.ts:116

None == 0               \* undefined (no request, no port)
Off == -1               \* no timer armed / line not configured

\* ------------------------------------------------------------------------
\* Strings are sequences of one-character strings; a JavaScript value that
\* can appear as an id is a string, a number, or undefined.
\* ------------------------------------------------------------------------
Digits == <<"0", "1", "2", "3", "4", "5", "6", "7", "8", "9">>

IsDigit(c) == \E i \in 1..10 : Digits[i] = c

Undefined == [t |-> "undefined"]
Str(s) == [t |-> "string", v |-> s]
Num(n) == [t |-> "number", v |-> n]

RECURSIVE ToDecimal(_)
\* Number.prototype.toString() of a non-negative integer
ToDecimal(n) ==
  IF n < 10 THEN <<Digits[n + 1]>>
  ELSE ToDecimal(n \div 10) \o <<Digits[(n % 10) + 1]>>

RECURSIVE PadStart(_, _, _)
\* String.prototype.padStart(width, fill)
PadStart(s, width, fill) ==
  IF Len(s) >= width THEN s ELSE PadStart(<<fill>> \o s, width, fill)

\* String(value) for the values of the model
StringOf(value) ==
  IF value.t = "number" THEN ToDecimal(value.v) ELSE value.v

RECURSIVE TrimStart(_)
TrimStart(s) ==
  IF s # <<>> /\ Head(s) = " " THEN TrimStart(Tail(s)) ELSE s

RECURSIVE TrimEnd(_)
TrimEnd(s) ==
  IF s # <<>> /\ s[Len(s)] = " " THEN TrimEnd(SubSeq(s, 1, Len(s) - 1)) ELSE s

\* String.prototype.trim()
Trim(s) == TrimEnd(TrimStart(s))

\* str.replace(/^0+(?=\d)/, ""): the longest run of leading zeros that is
\* followed by a digit is removed.
StripLeadingZeros(s) ==
  LET cand == {k \in 1..(Len(s) - 1) :
                 /\ \A i \in 1..k : s[i] = "0"
                 /\ IsDigit(s[k + 1])}
  IN IF cand = {} THEN s
     ELSE LET k == CHOOSE k \in cand : \A j \in cand : j <= k
          IN SubSeq(s, k + 1, Len(s))

\* BusManager.normalizeId: null for undefined/null/blank, else the trimmed
\* string without its leading zeros
normalizeId(value) ==
  IF value.t = "undefined" THEN Undefined
  ELSE LET str == Trim(StringOf(value))
       IN IF str = <<>> THEN Undefined ELSE Str(StripLeadingZeros(str))

\* ------------------------------------------------------------------------
\* State
\* ------------------------------------------------------------------------
VARIABLES
  queue,          \* BusManager.queue: request numbers, oldest first
  current,        \* BusManager.current: request number or None
  nextIdValue,    \* BusManager.nextIdValue
  reqs,           \* PendingRequest objects by request() call order; n: the
                  \* number of ids nextRequestId had handed out before
  outcome,        \* what each request's promise was settled with
  timer,          \* PendingRequest.timer: ticks left, or Off
  send,           \* the sendCommand call made for each request
  sendOrder,      \* requests in the order sendCommand was called for them
  assigned,       \* number of ids handed out by nextRequestId so far
  ports,          \* SerialPort objects alive, by slot
  port,           \* RS485Handler.port: index into ports or None
  parser,         \* port the ReadlineParser is piped from, or None
  status,         \* RS485Handler.status
  reconnectTimer, \* RS485Handler.reconnectTimer: ticks left, or Off
  gpio,           \* levels of legacyEnableGpio / driverEnableGpio / receiverEnableGpio
  released,       \* the level each line was left at when releaseGpio
                  \* unexported it, Off while it has not been released
  options,        \* RS485Handler.options
  initCalled,     \* RS485Handler.init() has been called
  destroyed,      \* RS485Handler.destroyed
  closing,        \* port whose close destroy() awaits, or None
  ignored,        \* how the last message handleMessage ignored found
                  \* BusManager: idle, busy, or busy with the id of the
                  \* message that of a queued request
  emitted,        \* events the RS485Handler emitted ("status", "error"; from
                  \* handleIncoming also "data", "line", "message")
                  \* in the handler run that led to this state, in order
  daemon,         \* the daemon's listeners and its monitor are part of
                  \* the state (they read the transport, never write it)
  RS485_STATUS,   \* the daemon's RS485_STATUS
  heartbeatMonitorTimer,  \* ticks to the next run of the monitor, or Off
  now             \* Date.now(), in ticks

vars == <<queue, current, nextIdValue, reqs, outcome, timer, send, sendOrder,
          assigned, ports, port, parser, status, reconnectTimer, gpio,
          released, options, initCalled, destroyed, closing, ignored, emitted,
          daemon, RS485_STATUS, heartbeatMonitorTimer, now>>

\* A handler and the calls it makes are composed as functions from a state
\* record to a state record (see Cur and Commit).

\* ------------------------------------------------------------------------
\* Values
\* ------------------------------------------------------------------------
NoMessage ==
  [obj |-> FALSE, replyTo |-> Undefined, id |-> Undefined,
   reply_to |-> Undefined, responseTo |-> Undefined, hello |-> Undefined,
   heartbeat |-> Undefined, speed |-> Undefined]

NoError == [type |-> "none", id |-> <<>>, timeoutMs |-> 0, call |-> None]

Pending == [kind |-> "pending", value |-> NoMessage, error |-> NoError]
Resolved(m) == [kind |-> "resolved", value |-> m, error |-> NoError]
Rejected(e) == [kind |-> "rejected", value |-> NoMessage, error |-> e]

\* new Error(`RS485 request ${id} timed out after ${timeoutMs}ms`)
TimeoutError(id, ms) ==
  [type |-> "timeout", id |-> id, timeoutMs |-> ms, call |-> None]

\* the error sendCommand threw for request r
SendError(r) == [type |-> "send", id |-> <<>>, timeoutMs |-> 0, call |-> r]

NoSend == [pc |-> "none", sleep |-> Off, p |-> None]

\* ------------------------------------------------------------------------
\* JSON.parse, for texts without arrays, escapes, fractions, signs or
\* blanks between tokens.  A parsed object keeps the members the program
\* reads; null is read as undefined is (every reader uses ?? or ==).
\* ------------------------------------------------------------------------
Chars(str) == [i \in 1..Len(str) |-> SubSeq(str, i, i)]

Bool(b) == [t |-> "boolean", v |-> b]
Nested == [t |-> "object"]

EmptyObject == [NoMessage EXCEPT !.obj = TRUE]

IsObject(v) == "obj" \in DOMAIN v

NoParse == [ok |-> FALSE, v |-> Undefined, pos |-> 0]
Parsed(v, pos) == [ok |-> TRUE, v |-> v, pos |-> pos]

StartsWith(text, i, word) ==
  /\ i + Len(word) - 1 <= Len(text)
  /\ SubSeq(text, i, i + Len(word) - 1) = word

RECURSIVE ToNumber(_)
ToNumber(ds) ==
  IF ds = <<>> THEN 0
  ELSE 10 * ToNumber(SubSeq(ds, 1, Len(ds) - 1))
       + (CHOOSE d \in 0..9 : Digits[d + 1] = ds[Len(ds)])

\* a JSON number: digits without a leading zero
ParseNumber(text, i) ==
  LET j == CHOOSE j \in i..Len(text) :
             /\ \A k \in i..j : IsDigit(text[k])
             /\ j = Len(text) \/ ~IsDigit(text[j + 1])
  IN IF text[i] = "0" /\ j > i THEN NoParse
     ELSE Parsed(Num(ToNumber(SubSeq(text, i, j))), j + 1)

\* a JSON string: from a double quote to the next one
ParseString(text, i) ==
  IF i > Len(text) \/ text[i] # "\"" THEN NoParse
  ELSE LET ends == {j \in (i + 1)..Len(text) : text[j] = "\""}
       IN IF ends = {} THEN NoParse
          ELSE LET j == CHOOSE j \in ends : \A k \in ends : j <= k
               IN Parsed(Str(SubSeq(text, i + 1, j - 1)), j + 1)

\* obj[key] = value, for the members the program reads
SetMember(obj, key, value) ==
  LET v == IF IsObject(value) THEN Nested ELSE value
  IN IF key = Chars("replyTo") THEN [obj EXCEPT !.replyTo = v]
     ELSE IF key = Chars("id") THEN [obj EXCEPT !.id = v]
     ELSE IF key = Chars("reply_to") THEN [obj EXCEPT !.reply_to = v]
     ELSE IF key = Chars("responseTo") THEN [obj EXCEPT !.responseTo = v]
     ELSE IF key = Chars("hello") THEN [obj EXCEPT !.hello = v]
     ELSE IF key = Chars("heartbeat") THEN [obj EXCEPT !.heartbeat = v]
     ELSE IF key = Chars("speed") THEN [obj EXCEPT !.speed = v]
     ELSE obj

RECURSIVE ParseValue(_, _), ParseMembers(_, _, _)
ParseValue(text, i) ==
  IF i > Len(text) THEN NoParse
  ELSE IF StartsWith(text, i, Chars("null")) THEN Parsed(Undefined, i + 4)
  ELSE IF StartsWith(text, i, Chars("true")) THEN Parsed(Bool(TRUE), i + 4)
  ELSE IF StartsWith(text, i, Chars("false"))
       THEN Parsed(Bool(FALSE), i + 5)
  ELSE IF IsDigit(text[i]) THEN ParseNumber(text, i)
  ELSE IF text[i] = "\"" THEN ParseString(text, i)
  ELSE IF text[i] = "{"
       THEN IF StartsWith(text, i, Chars("{}"))
            THEN Parsed(EmptyObject, i + 2)
            ELSE ParseMembers(text, i + 1, EmptyObject)
  ELSE NoParse

\* the members of an object, from the one that starts at i
ParseMembers(text, i, obj) ==
  LET key == ParseString(text, i)
  IN IF ~key.ok \/ ~StartsWith(text, key.pos, <<":">>) THEN NoParse
     ELSE LET value == ParseValue(text, key.pos + 1)
          IN IF ~value.ok THEN NoParse
             ELSE LET o == SetMember(obj, key.v.v, value.v)
                  IN IF StartsWith(text, value.pos, <<"}">>)
                     THEN Parsed(o, value.pos + 1)
                     ELSE IF StartsWith(text, value.pos, <<",">>)
                     THEN ParseMembers(text, value.pos + 1, o)
                     ELSE NoParse

\* JSON.parse(text): ok is FALSE where it throws a SyntaxError
JSONparse(text) ==
  LET value == ParseValue(text, 1)
  IN IF value.ok /\ value.pos = Len(text) + 1 THEN value ELSE NoParse

\* ------------------------------------------------------------------------
\* The daemon: RS485_STATUS, the remote monitor and the listeners on the
\* RS485Handler.  Texts that are never taken apart are kept in one piece.
\* ------------------------------------------------------------------------
HEARTBEAT_TIMEOUT_MS == 4   \* in ticks of 1000 ms

\* the shortest period of the monitor, 1000 ms
MinMonitorInterval == 1

HeartbeatInterval ==
  IF HEARTBEAT_TIMEOUT_MS \div 2 > MinMonitorInterval
  THEN HEARTBEAT_TIMEOUT_MS \div 2 ELSE MinMonitorInterval

NoRemote ==
  [connected |-> FALSE, device |-> Undefined, speed |-> Undefined,
   lastHeartbeat |-> None, connectedAt |-> None, disconnectedAt |-> None,
   reason |-> Undefined]

InitialStatus ==
  [status |-> "disconnected", error |-> Undefined, remote |-> NoRemote]

\* err.message of a failed port.open, of a port "error" event and of a
\* failed port.close
OpenError == Str(<<"Error: No such file or directory">>)
PortFault == Str(<<"Error: Input/output error">>)
CloseError == Str(<<"Error: Error closing port">>)
GpioError == Str(<<"Error: EACCES">>)

HeartbeatTimeoutReason == Str(<<"Remote heartbeat timeout">>)

\* `RS485 link ${status}`
LinkReason(st) == Str(<<"RS485 link ", st>>)

\* a string or undefined used as a condition
Truthy(v) == v.t = "string" /\ v.v # <<>>

\* faulty variant: the reason replaces RS485_STATUS.error whatever
\* overrideError says
markRemoteDisconnected_override(s, reason, overrideError) ==
  LET st == s.RS485_STATUS
  IN IF ~st.remote.connected
     THEN IF Truthy(reason)
          THEN [s EXCEPT !.RS485_STATUS.remote.reason = reason,
                         !.RS485_STATUS.error = reason]
          ELSE s
     ELSE [s EXCEPT !.RS485_STATUS =
             [status |-> IF st.status = "connected" THEN "disconnected"
                         ELSE st.status,
              error |-> IF Truthy(reason) THEN reason ELSE st.error,
              remote |-> [st.remote EXCEPT !.connected = FALSE,
                                           !.disconnectedAt = s.now,
                                           !.reason = reason]]]

markRemoteDisconnected(s, reason, overrideError) ==
  LET st == s.RS485_STATUS
  IN IF ~st.remote.connected
     THEN IF Truthy(reason)
          THEN [s EXCEPT !.RS485_STATUS.remote.reason = reason] ELSE s
     ELSE [s EXCEPT !.RS485_STATUS =
             [status |-> IF st.status = "connected" THEN "disconnected"
                         ELSE st.status,
              error |-> IF Truthy(reason)
                           /\ (overrideError \/ ~Truthy(st.error))
                        THEN reason ELSE st.error,
              remote |-> [st.remote EXCEPT !.connected = FALSE,
                                           !.disconnectedAt = s.now,
                                           !.reason = reason]]]

startHeartbeatMonitor(s) ==
  IF s.heartbeatMonitorTimer # Off \/ HEARTBEAT_TIMEOUT_MS <= 0 THEN s
  ELSE [s EXCEPT !.heartbeatMonitorTimer = HeartbeatInterval]

\* faulty variant: the remote is declared lost as soon as the monitor runs
monitorTick_noAge(s) ==
  LET remote == s.RS485_STATUS.remote
  IN IF remote.lastHeartbeat = None THEN s
     ELSE IF ~remote.connected THEN s
     ELSE markRemoteDisconnected(s, HeartbeatTimeoutReason, TRUE)

\* the callback of the monitor's setInterval
monitorTick(s) ==
  LET remote == s.RS485_STATUS.remote
  IN IF remote.lastHeartbeat = None THEN s
     ELSE IF ~remote.connected THEN s
     ELSE IF s.now - remote.lastHeartbeat > HEARTBEAT_TIMEOUT_MS
     THEN markRemoteDisconnected(s, HeartbeatTimeoutReason, TRUE)
     ELSE s

\* the part of handleRemotePayload that hello and heartbeat share
remoteAlive(s, remote) ==
  LET r1 == IF ~remote.connected
            THEN [remote EXCEPT !.connected = TRUE, !.connectedAt = s.now]
            ELSE remote
  IN [r1 EXCEPT !.lastHeartbeat = s.now, !.disconnectedAt = None,
                !.reason = Undefined]

\* faulty variant: a heartbeat always sets the device
handleRemotePayload_adopt(s, m) ==
  IF ~m.obj THEN s
  ELSE IF m.hello.t = "string"
  THEN LET r0 == s.RS485_STATUS.remote
           r1 == [r0 EXCEPT !.device = m.hello]
           r2 == IF m.speed.t = "number" THEN [r1 EXCEPT !.speed = m.speed]
                 ELSE r1
       IN [s EXCEPT !.RS485_STATUS =
             [status |-> "connected", error |-> Undefined,
              remote |-> remoteAlive(s, r2)]]
  ELSE IF m.heartbeat.t = "string"
  THEN LET r1 == remoteAlive(s, s.RS485_STATUS.remote)
       IN [s EXCEPT !.RS485_STATUS =
             [status |-> "connected", error |-> Undefined,
              remote |-> [r1 EXCEPT !.device = m.heartbeat]]]
  ELSE s

\* faulty variant: a hello does not take the time of arrival
handleRemotePayload_stale(s, m) ==
  IF ~m.obj THEN s
  ELSE IF m.hello.t = "string"
  THEN LET r0 == s.RS485_STATUS.remote
           r1 == [r0 EXCEPT !.device = m.hello]
           r2 == IF m.speed.t = "number" THEN [r1 EXCEPT !.speed = m.speed]
                 ELSE r1
           r3 == remoteAlive(s, r2)
       IN [s EXCEPT !.RS485_STATUS =
             [status |-> "connected", error |-> Undefined,
              remote |-> IF r0.connected
                         THEN [r3 EXCEPT !.lastHeartbeat =
                                            r0.lastHeartbeat]
                         ELSE r3]]
  ELSE IF m.heartbeat.t = "string"
  THEN LET r1 == remoteAlive(s, s.RS485_STATUS.remote)
       IN [s EXCEPT !.RS485_STATUS =
             [status |-> "connected", error |-> Undefined,
              remote |-> IF ~Truthy(r1.device)
                         THEN [r1 EXCEPT !.device = m.heartbeat] ELSE r1]]
  ELSE s

handleRemotePayload(s, m) ==
  IF ~m.obj THEN s
  ELSE IF m.hello.t = "string"
  THEN LET r0 == s.RS485_STATUS.remote
           r1 == [r0 EXCEPT !.device = m.hello]
           r2 == IF m.speed.t = "number" THEN [r1 EXCEPT !.speed = m.speed]
                 ELSE r1
       IN [s EXCEPT !.RS485_STATUS =
             [status |-> "connected", error |-> Undefined,
              remote |-> remoteAlive(s, r2)]]
  ELSE IF m.heartbeat.t = "string"
  THEN LET r1 == remoteAlive(s, s.RS485_STATUS.remote)
       IN [s EXCEPT !.RS485_STATUS =
             [status |-> "connected", error |-> Undefined,
              remote |-> IF ~Truthy(r1.device)
                         THEN [r1 EXCEPT !.device = m.heartbeat] ELSE r1]]
  ELSE s

\* the daemon's listener for "status"
onStatus(s, st) ==
  LET s1 == [s EXCEPT !.RS485_STATUS.status = st]
  IN IF st = "connected"
     THEN startHeartbeatMonitor([s1 EXCEPT !.RS485_STATUS.error = Undefined])
     ELSE markRemoteDisconnected(s1, LinkReason(st), FALSE)

\* faulty variant: the listener records the error and leaves the remote
\* as it is
onError_keepsRemote(s, err) ==
  [s EXCEPT !.RS485_STATUS.status = "fail", !.RS485_STATUS.error = err]

\* the daemon's listener for "error"
onError(s, err) ==
  markRemoteDisconnected(
    [s EXCEPT !.RS485_STATUS.status = "fail", !.RS485_STATUS.error = err],
    err, TRUE)

\* the catch of rs485Handler.init() in the daemon
initCatch(s, err) ==
  IF ~s.daemon THEN s
  ELSE [s EXCEPT !.RS485_STATUS.status = "fail", !.RS485_STATUS.error = err]

\* ------------------------------------------------------------------------
\* RS485Handler
\* ------------------------------------------------------------------------
NoCaller == [kind |-> "none", r |-> None]

\* a slot that holds no SerialPort object
FreePort ==
  [free |-> TRUE, isOpen |-> FALSE, pending |-> FALSE, listening |-> FALSE,
   piped |-> FALSE, by |-> NoCaller]

PortIsOpen(s) == s.port # None /\ s.ports[s.port].isOpen

\* A SerialPort object that is closed, has no open in progress and is no
\* longer this.port can do nothing more: its slot is reused.
Collect(s) ==
  LET dead == {p \in DOMAIN s.ports :
                 /\ ~s.ports[p].free
                 /\ ~s.ports[p].isOpen
                 /\ ~s.ports[p].pending
                 /\ s.port # p
                 /\ s.closing # p}
  IN [s EXCEPT
        !.ports = [p \in DOMAIN s.ports |->
                     IF p \in dead THEN FreePort ELSE s.ports[p]],
        !.parser = IF @ \in dead THEN None ELSE @,
        !.send = [r \in 1..Len(s.send) |->
                    IF s.send[r].p \in dead
                    THEN [s.send[r] EXCEPT !.p = None] ELSE s.send[r]]]

\* emit: the event is recorded and the daemon's listeners run
emit(s, ev, arg) ==
  LET s1 == [s EXCEPT !.emitted = Append(@, [ev |-> ev, arg |-> arg])]
  IN IF ~s.daemon THEN s1
     ELSE IF ev = "status" THEN onStatus(s1, arg)
     ELSE IF ev = "error" THEN onError(s1, arg)
     ELSE s1

\* setStatus(status, error?): error is Undefined or the error's message
setStatus(s, st, error) ==
  IF s.status = st /\ error = Undefined THEN s
  ELSE LET s1 == emit([s EXCEPT !.status = st], "status", st)
       IN IF error # Undefined THEN emit(s1, "error", error) ELSE s1

\* faulty variant: a timer that is already armed is started afresh
scheduleReconnect_restart(s) ==
  IF s.destroyed \/ ~s.options.autoReconnect THEN s
  ELSE [s EXCEPT !.reconnectTimer = s.options.reconnectIntervalMs]

\* faulty variant: the test of this.destroyed is missing
scheduleReconnect_afterDestroy(s) ==
  IF ~s.options.autoReconnect THEN s
  ELSE IF s.reconnectTimer # Off THEN s
  ELSE [s EXCEPT !.reconnectTimer = s.options.reconnectIntervalMs]

scheduleReconnect(s) ==
  IF s.destroyed \/ ~s.options.autoReconnect THEN s
  ELSE IF s.reconnectTimer # Off THEN s
  ELSE [s EXCEPT !.reconnectTimer = s.options.reconnectIntervalMs]

\* attachSerialListeners: error/close listeners on this.port; the parser
\* this.parser refers to is destroyed and a new one is piped from this.port
attachSerialListeners(s) ==
  IF s.port = None THEN s
  ELSE LET s1 == IF s.parser = None THEN s
                 ELSE [s EXCEPT !.ports[s.parser].piped = FALSE]
       IN [s1 EXCEPT !.ports[s.port].listening = TRUE,
                     !.ports[s.port].piped = TRUE,
                     !.parser = s.port]

\* openPort up to its await: a new SerialPort replaces this.port and
\* port.open is issued; by is the caller to resume.
openPortIssue(s0, by) ==
  LET s == Collect([s0 EXCEPT !.port = None])
      free == {p \in DOMAIN s.ports : s.ports[p].free}
  IN IF free = {} THEN [s0 EXCEPT !.overflow = TRUE]
     ELSE LET p == CHOOSE p \in free : \A q \in free : p <= q
          IN [s EXCEPT
                !.ports[p] = [free |-> FALSE, isOpen |-> FALSE,
                              pending |-> TRUE, listening |-> FALSE,
                              piped |-> FALSE, by |-> by],
                !.port = p]

\* toggle inside driveTransceiver: a writeSync that throws is logged and
\* leaves the line as it was
toggle(s, line, level, label) ==
  IF s.gpio[line] = Off \/ label \in s.fault THEN s
  ELSE [s EXCEPT !.gpio[line] = level]

ActiveLevel(s) == IF s.options.receiverEnableActiveLow THEN 0 ELSE 1
InactiveLevel(s) == IF ActiveLevel(s) = 1 THEN 0 ELSE 1

driveTransceiver(s, transmit) ==
  LET lvl == IF transmit THEN 1 ELSE 0
      s1 == IF s.gpio.de # Off THEN toggle(s, "de", lvl, "DE")
            ELSE IF s.gpio.legacy # Off THEN toggle(s, "legacy", lvl, "DE/RE")
            ELSE s
  IN IF s1.gpio.re # Off
     THEN toggle(s1, "re",
                 IF transmit THEN InactiveLevel(s1) ELSE ActiveLevel(s1), "RE")
     ELSE s1

\* sendRaw from driveTransceiver(true) to the await of port.write
sendRawWrite(s, r) ==
  LET s1 == driveTransceiver(s, TRUE)
  IN [s1 EXCEPT !.send[r] = [pc |-> "write", sleep |-> Off, p |-> s1.port]]

\* sendRaw (called through sendCommand) up to its first suspension:
\* ensurePortReady either finds the port open or starts openPort
sendRaw(s, r) ==
  IF PortIsOpen(s) THEN sendRawWrite(s, r)
  ELSE LET s1 == openPortIssue(s, [kind |-> "send", r |-> r])
       IN [s1 EXCEPT !.send[r] = [pc |-> "open", sleep |-> Off, p |-> s1.port]]

sendCommand(s, r) == sendRaw([s EXCEPT !.sendOrder = Append(@, r)], r)

\* ------------------------------------------------------------------------
\* BusManager
\* ------------------------------------------------------------------------
\* faulty variant: the id is not padded to three digits
nextRequestId_noPad(s) ==
  [id |-> ToDecimal(s.nextIdValue % IdModulus),
   s |-> [s EXCEPT !.nextIdValue = (@ + 1) % IdModulus, !.assigned = @ + 1]]

\* nextRequestId: the id it returns and the state it leaves
nextRequestId(s) ==
  [id |-> PadStart(ToDecimal(s.nextIdValue % IdModulus), IdWidth, "0"),
   s |-> [s EXCEPT !.nextIdValue = (@ + 1) % IdModulus, !.assigned = @ + 1]]

\* faulty variant: the guard on this.current is missing
processQueue_noGuard(s) ==
  IF s.queue = <<>> THEN s
  ELSE LET next == Head(s.queue)
       IN sendCommand([s EXCEPT !.queue = Tail(@), !.current = next], next)

\* faulty variant: takes the newest queued request (pop instead of shift)
processQueue_lifo(s) ==
  IF s.current # None THEN s
  ELSE IF s.queue = <<>> THEN s
  ELSE LET next == s.queue[Len(s.queue)]
       IN sendCommand([s EXCEPT !.queue = SubSeq(@, 1, Len(@) - 1),
                                !.current = next], next)

\* processQueue up to its await of sendCommand
processQueue(s) ==
  IF s.current # None THEN s
  ELSE IF s.queue = <<>> THEN s
  ELSE LET next == Head(s.queue)
       IN sendCommand([s EXCEPT !.queue = Tail(@), !.current = next], next)

\* faulty variant: the final processQueue() call is missing
resolveCurrent_noAdvance(s, settled) ==
  IF s.current = None THEN s
  ELSE LET c == s.current
       IN [s EXCEPT !.timer[c] = Off, !.outcome[c] = settled,
                    !.current = None]

\* resolveCurrent(error, result); settled is Rejected(error) or
\* Resolved(result)
resolveCurrent(s, settled) ==
  IF s.current = None THEN s
  ELSE LET c == s.current
       IN processQueue([s EXCEPT !.timer[c] = Off, !.outcome[c] = settled,
                                 !.current = None])

\* msg.replyTo ?? msg.id ?? msg.reply_to ?? msg.responseTo
CorrelationField_idFirst(m) ==
  IF m.id.t # "undefined" THEN m.id
  ELSE IF m.replyTo.t # "undefined" THEN m.replyTo
  ELSE IF m.reply_to.t # "undefined" THEN m.reply_to
  ELSE m.responseTo

CorrelationField(m) ==
  IF m.replyTo.t # "undefined" THEN m.replyTo
  ELSE IF m.id.t # "undefined" THEN m.id
  ELSE IF m.reply_to.t # "undefined" THEN m.reply_to
  ELSE m.responseTo

\* message m carries the correlation id of a request with this id
Correlates(m, id) ==
  /\ m.obj
  /\ normalizeId(CorrelationField(m)) # Undefined
  /\ normalizeId(CorrelationField(m)) = normalizeId(Str(id))

\* faulty variant: a reply is matched against every unsettled request,
\* queued ones included
handleMessage_buffered(s, m) ==
  IF ~m.obj THEN s
  ELSE LET replyTo == normalizeId(CorrelationField(m))
           hit == {r \in 1..Len(s.reqs) :
                     /\ s.outcome[r].kind = "pending"
                     /\ normalizeId(Str(s.reqs[r].id)) = replyTo}
       IN IF replyTo = Undefined \/ hit = {} THEN s
          ELSE IF s.current \in hit THEN resolveCurrent(s, Resolved(m))
          ELSE LET r == CHOOSE r \in hit : TRUE
               IN [s EXCEPT !.outcome[r] = Resolved(m),
                            !.queue = SelectSeq(@, LAMBDA q : q # r)]

\* faulty variant: a mismatching reply restarts the current request's
\* timeout
handleMessage_resetTimer(s, m) ==
  IF s.current = None \/ ~m.obj THEN s
  ELSE LET replyTo == normalizeId(CorrelationField(m))
           expected == normalizeId(Str(s.reqs[s.current].id))
       IN IF replyTo = Undefined THEN s
          ELSE IF replyTo # expected
          THEN IF s.timer[s.current] = Off THEN s
               ELSE [s EXCEPT !.timer[s.current] = s.reqs[s.current].timeoutMs]
          ELSE resolveCurrent(s, Resolved(m))

\* faulty variant: a reply counts as a sign of life of the remote
handleMessage_aliveOnReply(s, m) ==
  IF s.current = None \/ ~m.obj THEN s
  ELSE LET replyTo == normalizeId(CorrelationField(m))
           expected == normalizeId(Str(s.reqs[s.current].id))
       IN IF replyTo = Undefined THEN s
          ELSE IF replyTo # expected THEN s
          ELSE resolveCurrent(
                 [s EXCEPT !.RS485_STATUS.remote.lastHeartbeat = s.now],
                 Resolved(m))

handleMessage(s, m) ==
  IF s.current = None \/ ~m.obj THEN s
  ELSE LET replyTo == normalizeId(CorrelationField(m))
           expected == normalizeId(Str(s.reqs[s.current].id))
       IN IF replyTo = Undefined THEN s
          ELSE IF replyTo # expected THEN s
          ELSE resolveCurrent(s, Resolved(m))

handleTimeout(s) ==
  IF s.current = None THEN s
  ELSE resolveCurrent(s,
         Rejected(TimeoutError(s.reqs[s.current].id,
                               s.reqs[s.current].timeoutMs)))

\* request(payload, timeoutMs): given says whether payload.id is present
request(s, given, id, timeoutMs) ==
  LET fresh == nextRequestId(s)
      packetId == IF given THEN id ELSE fresh.id
      s1 == IF given THEN s ELSE fresh.s
      r == Len(s.reqs) + 1
      s2 == [s1 EXCEPT
               !.reqs = Append(@, [id |-> packetId, timeoutMs |-> timeoutMs,
                                   given |-> given,
                                   payloadId |-> IF given THEN id ELSE <<>>,
                                   n |-> s.assigned]),
               !.outcome = Append(@, Pending),
               !.timer = Append(@, Off),
               !.send = Append(@, NoSend),
               !.queue = Append(@, r)]
  IN processQueue(s2)

\* processQueue after its await of sendCommand for request next
\* faulty variant: no timeout timer is armed after sendCommand returns
processQueueResume_noTimer(s, next, ok) ==
  IF ok THEN s
  ELSE resolveCurrent(s, Rejected(SendError(next)))

\* faulty variant: the catch rejects the request that was sent instead of
\* calling resolveCurrent
processQueueResume_rejectNext(s, next, ok) ==
  IF ok THEN [s EXCEPT !.timer[next] = s.reqs[next].timeoutMs]
  ELSE [s EXCEPT !.outcome[next] = Rejected(SendError(next))]

processQueueResume(s, next, ok) ==
  IF ok THEN [s EXCEPT !.timer[next] = s.reqs[next].timeoutMs]
  ELSE resolveCurrent(s, Rejected(SendError(next)))

\* ------------------------------------------------------------------------
\* RS485Handler.handleIncoming and the listeners on "message"
\* ------------------------------------------------------------------------
\* what a listener that tests typeof message === "object" sees
ToMessage(v) == IF IsObject(v) THEN v ELSE NoMessage

\* the "message" listeners: BusManager.handleMessage, then the daemon's
onMessage(s, m) ==
  LET s1 == handleMessage(s, m)
      s2 == IF s1 = s
            THEN [s EXCEPT !.ignored =
                    IF s.current = None THEN "idle"
                    ELSE IF \E i \in 1..Len(s.queue) :
                              Correlates(m, s.reqs[s.queue[i]].id)
                         THEN "queued"
                    ELSE "busy"]
            ELSE s1
  IN IF s2.daemon THEN handleRemotePayload(s2, m) ELSE s2

handleIncoming_strict(s, data) ==
  IF data = <<>> THEN s
  ELSE LET s1 == emit(s, "data", Str(data))
           asString == Trim(data)
       IN IF asString = <<>> THEN s1
          ELSE LET s2 == emit(s1, "line", Str(asString))
                   parsed == JSONparse(asString)
               IN IF parsed.ok
                  THEN onMessage(emit(s2, "message", parsed.v),
                                 ToMessage(parsed.v))
                  ELSE setStatus(s2, "fail", PortFault)

\* a chunk of the parser (a line without its delimiter) or of the port
handleIncoming(s, data) ==
  IF data = <<>> THEN s
  ELSE LET s1 == emit(s, "data", Str(data))
           asString == Trim(data)
       IN IF asString = <<>> THEN s1
          ELSE LET s2 == emit(s1, "line", Str(asString))
                   parsed == JSONparse(asString)
               IN IF parsed.ok
                  THEN onMessage(emit(s2, "message", parsed.v),
                                 ToMessage(parsed.v))
                  ELSE s2

\* ------------------------------------------------------------------------
\* Continuations of sendRaw and openPort
\* ------------------------------------------------------------------------
\* faulty variant: the receive direction is restored after the try block
\* instead of in finally
sendRawFinally_onlyOnSuccess(s, r, ok) ==
  LET s1 == IF ok THEN driveTransceiver(s, FALSE) ELSE s
  IN IF s1.options.turnaroundDelayMs > 0
     THEN [s1 EXCEPT !.send[r] = [pc |-> IF ok THEN "sleepOk" ELSE "sleepErr",
                                  sleep |-> s1.options.turnaroundDelayMs, p |-> None]]
     ELSE processQueueResume(
            [s1 EXCEPT !.send[r] = [pc |-> IF ok THEN "returned" ELSE "threw",
                                    sleep |-> Off, p |-> None]], r, ok)

\* faulty variant: a failed write or drain is thrown on without the
\* turnaround delay
sendRawFinally_noDelayOnError(s, r, ok) ==
  LET s1 == driveTransceiver(s, FALSE)
  IN IF ok /\ s1.options.turnaroundDelayMs > 0
     THEN [s1 EXCEPT !.send[r] = [pc |-> "sleepOk",
                                  sleep |-> s1.options.turnaroundDelayMs,
                                  p |-> None]]
     ELSE processQueueResume(
            [s1 EXCEPT !.send[r] = [pc |-> IF ok THEN "returned" ELSE "threw",
                                    sleep |-> Off, p |-> None]], r, ok)

\* the finally block of sendRaw, entered with the outcome of write/drain
sendRawFinally(s, r, ok) ==
  LET s1 == driveTransceiver(s, FALSE)
  IN IF s1.options.turnaroundDelayMs > 0
     THEN [s1 EXCEPT !.send[r] = [pc |-> IF ok THEN "sleepOk" ELSE "sleepErr",
                                  sleep |-> s1.options.turnaroundDelayMs, p |-> None]]
     ELSE processQueueResume(
            [s1 EXCEPT !.send[r] = [pc |-> IF ok THEN "returned" ELSE "threw",
                                    sleep |-> Off, p |-> None]], r, ok)

\* openPort after its await of port.open on object p, then its caller
openPortResume(s, p, ok) ==
  LET by == s.ports[p].by
      s0 == [s EXCEPT !.ports[p].pending = FALSE, !.ports[p].isOpen = ok]
  IN IF ok
     THEN LET s1 == setStatus(attachSerialListeners(s0), "connected",
                              Undefined)
          IN IF by.kind = "send" THEN sendRawWrite(s1, by.r) ELSE s1
     ELSE LET s1 == scheduleReconnect(setStatus(s0, "fail", OpenError))
          IN IF by.kind = "send"
             THEN processQueueResume(
                    [s1 EXCEPT !.send[by.r] = [pc |-> "threw", sleep |-> Off,
                                               p |-> None]], by.r, FALSE)
             ELSE IF by.kind = "reconnect" THEN emit(s1, "error", OpenError)
             ELSE IF by.kind = "init" THEN initCatch(s1, OpenError)
             ELSE s1

\* ------------------------------------------------------------------------
\* RS485Handler: init, port events, reconnect, destroy
\* ------------------------------------------------------------------------
\* configurePin + the first writeSync of one line; cfgFail: the lines whose
\* new Gpio(pin, "out") throws.  The writeSync is outside any try block.
ConfigureLine(s, cfgFail, line, label, level) ==
  IF s.gpio[line] # Off THEN s
  ELSE IF label \in cfgFail THEN s
  ELSE IF label \in s.fault THEN [s EXCEPT !.gpio[line] = 0, !.threw = TRUE]
  ELSE [s EXCEPT !.gpio[line] = level]

ensureControlPins(s, cfgFail) ==
  IF s.options.enablePin
  THEN ConfigureLine(s, cfgFail, "legacy", "DE/RE", 0)
  ELSE IF /\ s.options.driverEnablePin
          /\ s.options.receiverEnablePin
          /\ s.options.samePin
  THEN ConfigureLine(s, cfgFail, "legacy", "DE/RE", 0)
  ELSE LET s1 == IF s.options.driverEnablePin
                 THEN ConfigureLine(s, cfgFail, "de", "DE", 0)
                 ELSE s
       IN IF s1.threw THEN s1
          ELSE IF s1.options.receiverEnablePin
          THEN ConfigureLine(s1, cfgFail, "re", "RE", ActiveLevel(s1))
          ELSE s1

\* openPort up to its first suspension
openPort(s, by) == IF PortIsOpen(s) THEN s ELSE openPortIssue(s, by)

\* init(): ensureControlPins, then openPort
init(s, cfgFail) ==
  LET s1 == ensureControlPins([s EXCEPT !.initCalled = TRUE], cfgFail)
  IN IF s1.threw THEN initCatch(s1, GpioError)
     ELSE openPort(s1, [kind |-> "init", r |-> None])

\* the "close" listener of attachSerialListeners
onPortClose(s) ==
  scheduleReconnect(setStatus(s, "disconnected", Undefined))

\* faulty variant: a port error is treated as a close
handlePortError_asClose(s, error) ==
  scheduleReconnect(
    setStatus(emit(s, "error", error), "disconnected", Undefined))

handlePortError(s, error) ==
  scheduleReconnect(setStatus(emit(s, "error", error), "fail", Undefined))

\* the reconnect timer's callback
onReconnectTimer(s) ==
  openPort([s EXCEPT !.reconnectTimer = Off],
           [kind |-> "reconnect", r |-> None])

clearReconnectTimer(s) == [s EXCEPT !.reconnectTimer = Off]

\* faulty variant: the line is unexported at the level it has
releaseGpio_asIs(s, line, label) ==
  IF s.gpio[line] = Off THEN s
  ELSE [s EXCEPT !.released[line] = s.gpio[line], !.gpio[line] = Off]

\* releaseGpio(pin, label) and the assignment that forgets the pin: the
\* line is driven low (unless the write fails) and unexported
releaseGpio(s, line, label) ==
  IF s.gpio[line] = Off THEN s
  ELSE [s EXCEPT !.released[line] = IF label \in s.fault THEN s.gpio[line]
                                    ELSE 0,
                 !.gpio[line] = Off]

\* the three releaseGpio calls of destroy()
releaseAll(s) ==
  releaseGpio(releaseGpio(releaseGpio(s, "legacy", "DE/RE"), "de", "DE"),
              "re", "RE")

\* closePort after its await of port.close, then the rest of destroy
closePortResume(s) ==
  releaseAll(setStatus([s EXCEPT !.port = None, !.parser = None,
                                 !.closing = None],
                       "disconnected", Undefined))

\* faulty variant: destroy() fails the request that is current
destroy_failsCurrent(s) ==
  LET s0 == IF s.current = None THEN s
            ELSE resolveCurrent(s, Rejected(SendError(s.current)))
      s1 == clearReconnectTimer([s0 EXCEPT !.destroyed = TRUE])
  IN IF s1.port = None THEN releaseAll(s1)
     ELSE IF ~s1.ports[s1.port].isOpen
     THEN releaseAll([s1 EXCEPT !.port = None])
     ELSE [s1 EXCEPT !.closing = s1.port]

\* destroy() up to its first suspension
destroy(s) ==
  LET s1 == clearReconnectTimer([s EXCEPT !.destroyed = TRUE])
  IN IF s1.port = None THEN releaseAll(s1)
     ELSE IF ~s1.ports[s1.port].isOpen
     THEN releaseAll([s1 EXCEPT !.port = None])
     ELSE [s1 EXCEPT !.closing = s1.port]

\* ------------------------------------------------------------------------
\* Inputs
\* ------------------------------------------------------------------------
Reply(replyTo, id) ==
  [obj |-> TRUE, replyTo |-> replyTo, id |-> id,
   reply_to |-> Undefined, responseTo |-> Undefined, hello |-> Undefined,
   heartbeat |-> Undefined, speed |-> Undefined]

\* request() calls, timeouts in ticks: request({cmd}, 1) and
\* request({cmd, id: "005"}, 2)
AutoIdRequest == [given |-> FALSE, id |-> <<>>, timeoutMs |-> 1]

RequestKinds ==
  { AutoIdRequest,
    [given |-> TRUE, id |-> <<"0", "0", "5">>, timeoutMs |-> 2] }

\* parsed inbound lines: {"replyTo":"0"}, {"replyTo":5}, {"id":"001"},
\* {"replyTo":"7","id":"000"}, {"hello":"ctrl-1"}, {"replyTo":" "}, 42
Messages ==
  { Reply(Str(<<"0">>), Undefined),
    Reply(Num(5), Undefined),
    Reply(Undefined, Str(<<"0", "0", "1">>)),
    Reply(Str(<<"7">>), Str(<<"0", "0", "0">>)),
    Reply(Undefined, Undefined),
    Reply(Str(<<" ">>), Undefined),
    NoMessage }

\* option sets of the constructor: two lines with active-low RE (the
\* daemon's configuration), two lines with active-high RE, one legacy line;
\* turnaroundDelayMs and reconnectIntervalMs in ticks
Opt(enablePin, activeLow, auto) ==
  [enablePin |-> enablePin, driverEnablePin |-> ~enablePin,
   receiverEnablePin |-> ~enablePin, samePin |-> FALSE,
   receiverEnableActiveLow |-> activeLow, autoReconnect |-> auto,
   turnaroundDelayMs |-> 1, reconnectIntervalMs |-> 2]

DaemonOptions == Opt(FALSE, TRUE, TRUE)

OptionChoices ==
  { DaemonOptions, Opt(FALSE, FALSE, TRUE), Opt(TRUE, TRUE, TRUE),
    Opt(FALSE, TRUE, FALSE) }

\* the lines that exist, by the label the code logs them under
Labels ==
  {l \in {"DE", "RE", "DE/RE"} :
     \/ l = "DE" /\ gpio.de # Off
     \/ l = "RE" /\ gpio.re # Off
     \/ l = "DE/RE" /\ gpio.legacy # Off}

OptionLabels ==
  IF options.enablePin THEN {"DE/RE"} ELSE {"DE", "RE"}

\* the sets of lines whose level write may fail in one handler run; hw
\* says whether hardware faults are part of the environment
Faults(hw, lines) == IF hw THEN SUBSET lines ELSE {{}}

\* ------------------------------------------------------------------------
\* State as a record, and back
\* ------------------------------------------------------------------------
\* fault: the lines whose writeSync throws while this handler runs;
\* overflow: the handler needed more SerialPort objects than the model
\* holds; threw: the handler has thrown.
Cur(fault) ==
  [queue |-> queue, current |-> current, nextIdValue |-> nextIdValue,
   reqs |-> reqs, outcome |-> outcome, timer |-> timer, send |-> send,
   sendOrder |-> sendOrder, assigned |-> assigned, ports |-> ports,
   port |-> port, parser |-> parser, status |-> status,
   reconnectTimer |-> reconnectTimer, gpio |-> gpio, released |-> released,
   options |-> options,
   initCalled |-> initCalled, destroyed |-> destroyed, closing |-> closing,
   ignored |-> ignored, emitted |-> <<>>, daemon |-> daemon,
   RS485_STATUS |-> RS485_STATUS,
   heartbeatMonitorTimer |-> heartbeatMonitorTimer, now |-> now,
   fault |-> fault, overflow |-> FALSE, threw |-> FALSE]

Commit(s0) ==
  \E s \in {Collect(s0)} :
     /\ ~s.overflow
     /\ queue' = s.queue
     /\ current' = s.current
     /\ nextIdValue' = s.nextIdValue
     /\ reqs' = s.reqs
     /\ outcome' = s.outcome
     /\ timer' = s.timer
     /\ send' = s.send
     /\ sendOrder' = s.sendOrder
     /\ assigned' = s.assigned
     /\ ports' = s.ports
     /\ port' = s.port
     /\ parser' = s.parser
     /\ status' = s.status
     /\ reconnectTimer' = s.reconnectTimer
     /\ gpio' = s.gpio
     /\ released' = s.released
     /\ options' = s.options
     /\ initCalled' = s.initCalled
     /\ destroyed' = s.destroyed
     /\ closing' = s.closing
     /\ ignored' = s.ignored
     /\ emitted' = s.emitted
     /\ daemon' = s.daemon
     /\ RS485_STATUS' = s.RS485_STATUS
     /\ heartbeatMonitorTimer' = s.heartbeatMonitorTimer
     /\ now' = s.now

\* ------------------------------------------------------------------------
\* Initial state: new RS485Handler(options), new BusManager(transport),
\* busManager.init()
\* ------------------------------------------------------------------------
InitHandlers(opts, nports, counts) ==
  /\ queue = <<>>
  /\ current = None
  /\ reqs = <<>>
  /\ outcome = <<>>
  /\ timer = <<>>
  /\ send = <<>>
  /\ sendOrder = <<>>
  /\ assigned \in counts
  /\ nextIdValue = assigned % IdModulus
  /\ ports = [p \in 1..nports |-> FreePort]
  /\ port = None
  /\ parser = None
  /\ status = "disconnected"
  /\ reconnectTimer = Off
  /\ gpio = [legacy |-> Off, de |-> Off, re |-> Off]
  /\ released = [legacy |-> Off, de |-> Off, re |-> Off]
  /\ options \in opts
  /\ initCalled = FALSE
  /\ destroyed = FALSE
  /\ closing = None
  /\ ignored = "none"
  /\ emitted = <<>>

\* the daemon's module load: RS485_STATUS, the listeners and
\* startHeartbeatMonitor(); the clock starts at a positive time
InitDaemon(attached) ==
  /\ daemon = attached
  /\ RS485_STATUS = InitialStatus
  /\ heartbeatMonitorTimer = IF attached THEN HeartbeatInterval ELSE Off
  /\ now = 1

InitWith(opts, nports, counts) ==
  InitHandlers(opts, nports, counts) /\ InitDaemon(FALSE)

\* ------------------------------------------------------------------------
\* Actions: one per handler run
\* ------------------------------------------------------------------------
\* a caller calls busManager.request(payload, timeoutMs)
Request(hw, kinds, cap) ==
  /\ Len(reqs) < cap
  /\ \E k \in kinds, f \in Faults(hw, Labels) :
       Commit(request(Cur(f), k.given, k.id, k.timeoutMs))

\* rs485Handler.init() is called
TransportInit(hw) ==
  /\ ~initCalled
  /\ ~destroyed
  /\ \E cfgFail \in Faults(hw, OptionLabels), f \in Faults(hw, OptionLabels) :
       Commit(init(Cur(f), cfgFail))

\* port.open of SerialPort object p calls back
OpenDone(hw) ==
  \E p \in DOMAIN ports, ok \in BOOLEAN, f \in Faults(hw, Labels) :
    /\ ports[p].pending
    /\ Commit(openPortResume(Cur(f), p, ok))

\* port.write of the send for request r calls back
WriteDone(hw) ==
  \E r \in 1..Len(reqs), ok \in BOOLEAN, f \in Faults(hw, Labels) :
    /\ send[r].pc = "write"
    /\ ok => (send[r].p # None /\ ports[send[r].p].isOpen)
    /\ LET s == Cur(f)
       IN Commit(IF ok
                 THEN [s EXCEPT !.send[r] = [pc |-> "drain", sleep |-> Off,
                                             p |-> s.port]]
                 ELSE sendRawFinally(s, r, FALSE))

\* port.drain of the send for request r calls back
DrainDone(hw) ==
  \E r \in 1..Len(reqs), ok \in BOOLEAN, f \in Faults(hw, Labels) :
    /\ send[r].pc = "drain"
    /\ ok => (send[r].p # None /\ ports[send[r].p].isOpen)
    /\ Commit(sendRawFinally(Cur(f), r, ok))

\* the turnaround sleep of the send for request r ends: sendRaw and
\* sendCommand return or throw, processQueue resumes
SleepDone(hw) ==
  \E r \in 1..Len(reqs), f \in Faults(hw, Labels) :
    /\ send[r].pc \in {"sleepOk", "sleepErr"}
    /\ send[r].sleep = 0
    /\ LET ok == send[r].pc = "sleepOk"
           s == Cur(f)
       IN Commit(processQueueResume(
                   [s EXCEPT !.send[r] = [pc |-> IF ok THEN "returned"
                                                 ELSE "threw",
                                          sleep |-> Off, p |-> None]], r, ok))

\* a line that parses to m arrives on a port with a live parser:
\* handleIncoming emits "message", BusManager.handleMessage runs
Deliver(hw, m) ==
  \E f \in Faults(hw, Labels) :
    /\ \E p \in DOMAIN ports : ports[p].isOpen /\ ports[p].piped
    /\ Commit(onMessage(Cur(f), m))

HandleIncoming(hw, msgs) == \E m \in msgs : Deliver(hw, m)

\* the chunk data arrives on a port with a live parser
IncomingData(hw, lines) ==
  \E data \in lines, f \in Faults(hw, Labels) :
    /\ \E p \in DOMAIN ports : ports[p].isOpen /\ ports[p].piped
    /\ Commit(handleIncoming(Cur(f), data))

\* the timeout timer armed for request r fires
TimeoutFire(hw) ==
  \E r \in 1..Len(reqs), f \in Faults(hw, Labels) :
    /\ timer[r] = 0
    /\ LET s == Cur(f)
       IN Commit(handleTimeout([s EXCEPT !.timer[r] = Off]))

\* the reconnect timer fires
ReconnectFire ==
  /\ reconnectTimer = 0
  /\ Commit(onReconnectTimer(Cur({})))

\* SerialPort object p closes (cable pulled, device gone)
PortClose ==
  \E p \in DOMAIN ports :
    /\ ports[p].isOpen
    /\ p # closing
    /\ LET s == [Cur({}) EXCEPT !.ports[p].isOpen = FALSE]
       IN Commit(IF ports[p].listening THEN onPortClose(s) ELSE s)

\* SerialPort object p emits "error"
PortError ==
  \E p \in DOMAIN ports :
    /\ ports[p].isOpen
    /\ ports[p].listening
    /\ Commit(handlePortError(Cur({}), PortFault))

\* rs485Handler.destroy() is called
Destroy ==
  /\ ~destroyed
  /\ Commit(destroy(Cur({})))

\* port.close issued by destroy() calls back; on success the port emits
\* "close" first
CloseDone ==
  \E ok \in BOOLEAN :
    /\ closing # None
    /\ LET s == Cur({})
           s1 == IF ok
                 THEN LET s2 == [s EXCEPT !.ports[closing].isOpen = FALSE]
                      IN IF ports[closing].listening THEN onPortClose(s2)
                         ELSE s2
                 ELSE emit(s, "error", CloseError)
       IN Commit(closePortResume(s1))

Dec(x) == IF x > 0 THEN x - 1 ELSE x

\* one millisecond passes; a timer that is due fires before time moves on
Tick ==
  /\ \A r \in 1..Len(reqs) : timer[r] # 0 /\ send[r].sleep # 0
  /\ reconnectTimer # 0
  /\ heartbeatMonitorTimer # 0
  /\ \/ \E r \in 1..Len(reqs) : timer[r] > 0 \/ send[r].sleep > 0
     \/ reconnectTimer > 0
     \/ heartbeatMonitorTimer > 0
  /\ daemon => now < MaxNow
  /\ timer' = [r \in 1..Len(reqs) |-> Dec(timer[r])]
  /\ send' = [r \in 1..Len(reqs) |-> [send[r] EXCEPT !.sleep = Dec(@)]]
  /\ reconnectTimer' = Dec(reconnectTimer)
  /\ heartbeatMonitorTimer' = Dec(heartbeatMonitorTimer)
  /\ now' = IF daemon THEN now + 1 ELSE now
  /\ emitted' = <<>>
  /\ UNCHANGED <<queue, current, nextIdValue, reqs, outcome, sendOrder,
                 assigned, ports, port, parser, status, gpio, released,
                 options, initCalled, destroyed, closing, ignored, daemon,
                 RS485_STATUS>>

\* the monitor's interval timer fires and is armed again
MonitorTick ==
  /\ heartbeatMonitorTimer = 0
  /\ Commit([monitorTick(Cur({})) EXCEPT
               !.heartbeatMonitorTimer = HeartbeatInterval])

\* ------------------------------------------------------------------------
\* Specifications
\* ------------------------------------------------------------------------
\* The daemon's configuration with working direction lines: requests,
\* replies, timers, send completions and port opens in every interleaving.
InitBus == InitWith({DaemonOptions}, MaxBusPorts, {0})

NextBus ==
  \/ Request(FALSE, RequestKinds, MaxRequests)
  \/ TransportInit(FALSE)
  \/ OpenDone(FALSE)
  \/ WriteDone(FALSE)
  \/ DrainDone(FALSE)
  \/ SleepDone(FALSE)
  \/ HandleIncoming(FALSE, Messages)
  \/ TimeoutFire(FALSE)
  \/ ReconnectFire
  \/ Tick

SpecBus == InitBus /\ [][NextBus]_vars

\* The same with three requests that get their ids from the counter, so
\* that two requests wait in the queue at once.
NextFifo ==
  \/ Request(FALSE, {AutoIdRequest}, MaxFifoRequests)
  \/ TransportInit(FALSE)
  \/ OpenDone(FALSE)
  \/ WriteDone(FALSE)
  \/ DrainDone(FALSE)
  \/ SleepDone(FALSE)
  \/ HandleIncoming(FALSE, Messages)
  \/ TimeoutFire(FALSE)
  \/ ReconnectFire
  \/ Tick

SpecFifo == InitBus /\ [][NextFifo]_vars

\* Id assignment: BusManager after any number of earlier requests, all
\* settled and forgotten, then a window of request() calls.
InitId == InitWith({DaemonOptions}, MaxBusPorts, 0..IdModulus)

NextId == Request(FALSE, RequestKinds, MaxIdWindow)

SpecId == InitId /\ [][NextId]_vars

\* Id comparison: one request at a time whose id the caller chose, and
\* replies that carry ids in other spellings.
\* request({cmd, id: "005"}, 1), id: "000", id: "00a"
NormRequestKinds ==
  { [given |-> TRUE, id |-> <<"0", "0", "5">>, timeoutMs |-> 1],
    [given |-> TRUE, id |-> <<"0", "0", "0">>, timeoutMs |-> 1],
    [given |-> TRUE, id |-> <<"0", "0", "a">>, timeoutMs |-> 1] }

\* {"replyTo":"5"}, {"replyTo":5}, {"replyTo":"0"}, {"replyTo":0},
\* {"replyTo":" 5 "}, {"replyTo":"0a"}, {"replyTo":"00a"}, {"replyTo":"6"},
\* {"replyTo":""}
NormMessages ==
  { Reply(Str(<<"5">>), Undefined),
    Reply(Num(5), Undefined),
    Reply(Str(<<"0">>), Undefined),
    Reply(Num(0), Undefined),
    Reply(Str(<<" ", "5", " ">>), Undefined),
    Reply(Str(<<"0", "a">>), Undefined),
    Reply(Str(<<"0", "0", "a">>), Undefined),
    Reply(Str(<<"6">>), Undefined),
    Reply(Str(<<>>), Undefined) }

NextNorm ==
  \/ Request(FALSE, NormRequestKinds, MaxNormRequests)
  \/ TransportInit(FALSE)
  \/ OpenDone(FALSE)
  \/ WriteDone(FALSE)
  \/ DrainDone(FALSE)
  \/ SleepDone(FALSE)
  \/ HandleIncoming(FALSE, NormMessages)
  \/ TimeoutFire(FALSE)
  \/ ReconnectFire
  \/ Tick

SpecNorm == InitBus /\ [][NextNorm]_vars

\* Direction lines: every option set, working lines, requests that get
\* their ids from the counter and the reply to the first of them.
InitPins == InitWith(OptionChoices, MaxBusPorts, {0})

NextPins ==
  \/ Request(FALSE, {AutoIdRequest}, MaxRequests)
  \/ TransportInit(FALSE)
  \/ OpenDone(FALSE)
  \/ WriteDone(FALSE)
  \/ DrainDone(FALSE)
  \/ SleepDone(FALSE)
  \/ HandleIncoming(FALSE, {Reply(Str(<<"0">>), Undefined)})
  \/ TimeoutFire(FALSE)
  \/ ReconnectFire
  \/ Tick

SpecPins == InitPins /\ [][NextPins]_vars

\* The port's life: opens that fail, ports that close or report errors,
\* the reconnect timer, destroy(), and requests sent meanwhile; auto-
\* reconnect on (the daemon's configuration) or off.
LinkOptions == {DaemonOptions, Opt(FALSE, TRUE, FALSE)}

LinkMessages == {Reply(Str(<<"0">>), Undefined), Reply(Undefined, Undefined)}

InitLink == InitWith(LinkOptions, MaxPorts, {0})

NextLink ==
  \/ Request(FALSE, {AutoIdRequest}, MaxLinkRequests)
  \/ TransportInit(FALSE)
  \/ OpenDone(FALSE)
  \/ WriteDone(FALSE)
  \/ DrainDone(FALSE)
  \/ SleepDone(FALSE)
  \/ HandleIncoming(FALSE, LinkMessages)
  \/ TimeoutFire(FALSE)
  \/ ReconnectFire
  \/ PortClose
  \/ PortError
  \/ Destroy
  \/ CloseDone
  \/ Tick

SpecLink == InitLink /\ [][NextLink]_vars

\* destroy() with requests under way: every request is made before
\* destroy() is called, the first is current from its request() call on
\* and the second waits in the queue behind it.
RequestBeforeDestroy ==
  ~destroyed /\ Request(FALSE, {AutoIdRequest}, MaxDestroyRequests)

InitDestroy == InitWith({DaemonOptions}, MaxPorts, {0})

NextDestroy ==
  \/ RequestBeforeDestroy
  \/ TransportInit(FALSE)
  \/ OpenDone(FALSE)
  \/ WriteDone(FALSE)
  \/ DrainDone(FALSE)
  \/ SleepDone(FALSE)
  \/ HandleIncoming(FALSE, LinkMessages)
  \/ TimeoutFire(FALSE)
  \/ ReconnectFire
  \/ Destroy
  \/ CloseDone
  \/ Tick

SpecDestroy == InitDestroy /\ [][NextDestroy]_vars

\* The daemon: its listeners on the RS485Handler, RS485_STATUS and the
\* heartbeat monitor, with a port that opens, fails, closes and is
\* reopened by the reconnect timer, and a remote that sends hello and
\* heartbeat lines or falls silent.
Hello(id, speed) ==
  [Reply(Undefined, Undefined) EXCEPT !.hello = id, !.speed = speed]

Heartbeat(id) == [Reply(Undefined, Undefined) EXCEPT !.heartbeat = id]

\* {"hello":"a","speed":9600}, {"hello":"b"}, {"hello":"b","speed":"fast"},
\* {"hello":"","heartbeat":"a"}, {"heartbeat":"a"}, {"heartbeat":"c"},
\* {"hello":7}, {"replyTo":"0"}, 42
MonitorMessages ==
  { Hello(Str(<<"a">>), Num(9600)),
    Hello(Str(<<"b">>), Undefined),
    Hello(Str(<<"b">>), Str(<<"fast">>)),
    [Hello(Str(<<>>), Undefined) EXCEPT !.heartbeat = Str(<<"a">>)],
    Heartbeat(Str(<<"a">>)),
    Heartbeat(Str(<<"c">>)),
    Hello(Num(7), Undefined),
    Reply(Str(<<"0">>), Undefined),
    NoMessage }

InitMonitor == InitHandlers({DaemonOptions}, MaxPorts, {0}) /\ InitDaemon(TRUE)

NextMonitor ==
  \/ TransportInit(FALSE)
  \/ OpenDone(FALSE)
  \/ HandleIncoming(FALSE, MonitorMessages)
  \/ ReconnectFire
  \/ PortClose
  \/ PortError
  \/ MonitorTick
  \/ Tick

SpecMonitor == InitMonitor /\ [][NextMonitor]_vars

\* Raw inbound traffic on the daemon's configuration: one request, the
\* port failing and reconnecting, and chunks that are JSON objects, other
\* JSON values, malformed JSON, plain text, blank and empty.
ReplyLine == Chars("{\"replyTo\":\"0\"}")
CutLine == Chars("{\"replyTo\":\"0\"")
QuoteLine == Chars("{'replyTo':'0'}")
HelloLine == Chars(" {\"hello\":\"a\",\"speed\":9600,\"up\":true}")
NumberLine == Chars("42 ")
ZerosLine == Chars("007")
TextLine == Chars("ready")
BlankLine == Chars("  ")

Lines ==
  { ReplyLine, CutLine, QuoteLine, HelloLine, NumberLine, ZerosLine,
    TextLine, BlankLine, <<>> }

InitLines == InitWith({DaemonOptions}, MaxBusPorts, {0})

NextLines ==
  \/ Request(FALSE, {AutoIdRequest}, MaxLineRequests)
  \/ TransportInit(FALSE)
  \/ OpenDone(FALSE)
  \/ WriteDone(FALSE)
  \/ DrainDone(FALSE)
  \/ SleepDone(FALSE)
  \/ IncomingData(FALSE, Lines)
  \/ TimeoutFire(FALSE)
  \/ ReconnectFire
  \/ PortError
  \/ Tick

SpecLines == InitLines /\ [][NextLines]_vars

\* Replies that carry their correlation id in different members, for the
\* request with id "000": the members in the order handleMessage reads
\* them, one or two of them present, null, empty or mismatching.
ByReplyTo == Chars("{\"replyTo\":\"0\"}")
ById == Chars("{\"id\":0}")
ByReply_to == Chars("{\"reply_to\":\"000\"}")
ByResponseTo == Chars("{\"responseTo\":\"0\"}")
NullThenId == Chars("{\"replyTo\":null,\"id\":\"0\"}")
MismatchThenId == Chars("{\"replyTo\":\"9\",\"id\":\"0\"}")
EmptyThenReply_to == Chars("{\"id\":\"\",\"reply_to\":\"0\"}")
ResponseToFirst == Chars("{\"responseTo\":\"9\",\"reply_to\":\"0\"}")
NoCorrelation == Chars("{\"cmd\":\"who\"}")

CorrelationLines ==
  { ByReplyTo, ById, ByReply_to, ByResponseTo, NullThenId, MismatchThenId,
    EmptyThenReply_to, ResponseToFirst, NoCorrelation }

InitCorrelation == InitWith({DaemonOptions}, MaxBusPorts, {0})

NextCorrelation ==
  \/ Request(FALSE, {AutoIdRequest}, MaxCorrelationRequests)
  \/ TransportInit(FALSE)
  \/ OpenDone(FALSE)
  \/ WriteDone(FALSE)
  \/ DrainDone(FALSE)
  \/ SleepDone(FALSE)
  \/ IncomingData(FALSE, CorrelationLines)
  \/ TimeoutFire(FALSE)
  \/ Tick

SpecCorrelation == InitCorrelation /\ [][NextCorrelation]_vars

\* Direction lines that fail: in every handler run any of the configured
\* lines may refuse to be configured or refuse a level write; every pin
\* configuration of OptionChoices.
InitHardware == InitWith(OptionChoices, MaxBusPorts, {0})

NextHardware ==
  \/ Request(TRUE, {AutoIdRequest}, MaxHardwareRequests)
  \/ TransportInit(TRUE)
  \/ OpenDone(TRUE)
  \/ WriteDone(TRUE)
  \/ DrainDone(TRUE)
  \/ SleepDone(TRUE)
  \/ TimeoutFire(TRUE)
  \/ ReconnectFire
  \/ Tick

SpecHardware == InitHardware /\ [][NextHardware]_vars

\* The daemon with a request, raw inbound lines, opens that fail, the
\* reconnect timer and the monitor together.
BeatLine == Chars("{\"heartbeat\":\"a\"}")

FrameLines == {HelloLine, BeatLine, ReplyLine, TextLine}

InitFrame ==
  InitHandlers({DaemonOptions}, MaxBusPorts, {0}) /\ InitDaemon(TRUE)

NextFrame ==
  \/ Request(FALSE, {AutoIdRequest}, MaxFrameRequests)
  \/ TransportInit(FALSE)
  \/ OpenDone(FALSE)
  \/ WriteDone(FALSE)
  \/ DrainDone(FALSE)
  \/ SleepDone(FALSE)
  \/ IncomingData(FALSE, FrameLines)
  \/ TimeoutFire(FALSE)
  \/ ReconnectFire
  \/ MonitorTick
  \/ Tick

SpecFrame == InitFrame /\ [][NextFrame]_vars

\* SpecBus with its environment kept going.  Every port.open, write and
\* drain that a sendCommand call awaits calls back (the callbacks come
\* from the serial port driver, so this is stated for the call: it does
\* not await them for ever); a sleep or a timer that is due runs its
\* callback, and time passes while a sleep or a timer is running.  The
\* port.open that init() or the reconnect timer started calls back too:
\* the SerialPort objects alive at a time are bounded here, so an open
\* that never ends would hold back a handler that creates a new one.
\* Requests and inbound messages are free.
FairBus ==
  /\ \A r \in 1..MaxRequests :
       []<>(r > Len(reqs) \/ send[r].pc \notin {"open", "write", "drain"})
  /\ \A p \in 1..MaxBusPorts : []<>(~ports[p].pending)
  /\ WF_vars(SleepDone(FALSE))
  /\ WF_vars(TimeoutFire(FALSE))
  /\ WF_vars(ReconnectFire)
  /\ WF_vars(Tick)

SpecBusFair == InitBus /\ [][NextBus]_vars /\ FairBus

\* ------------------------------------------------------------------------
\* Vocabulary of the properties
\* ------------------------------------------------------------------------
Requests == 1..Len(reqs)

\* sendCommand has been called for r and has not yet returned or thrown
InFlight(r) == send[r].pc \in {"open", "write", "drain", "sleepOk", "sleepErr"}

\* sendCommand has been called for r
Started(r) == send[r].pc # "none"

Unsettled(r) == outcome[r].kind = "pending"

TimedOut(o) == o.kind = "rejected" /\ o.error.type = "timeout"

SendFailed(o) == o.kind = "rejected" /\ o.error.type = "send"

\* the queue's head, the request processQueue takes next
QueueHead == IF queue = <<>> THEN None ELSE Head(queue)

\* ------------------------------------------------------------------------
\* C1..C3: one transmission at a time, one current request, FIFO order
\* ------------------------------------------------------------------------
\* C1: TransactionManager never calls sendCommand for a request while the
\* sendCommand call it made for an earlier request has not yet returned:
\* at most one sendCommand call is in flight.
C1_OneTransmissionInFlight ==
  Cardinality({r \in Requests : InFlight(r)}) <= 1

\* exactly the request BusManager.current names has been handed to the
\* transport and is not settled; queued requests are neither
C2_CurrentState ==
  LET cur == {r \in Requests : Started(r) /\ Unsettled(r)}
  IN /\ Cardinality(cur) <= 1
     /\ cur = IF current = None THEN {} ELSE {current}
     /\ \A i \in 1..Len(queue) :
          /\ queue[i] # current
          /\ ~Started(queue[i])
          /\ Unsettled(queue[i])

\* a request becomes current only from the head of the queue (or on its
\* own request() call when the queue is empty), and only when the
\* request that was current, if any, is settled by the same handler
C2_CurrentStep ==
  \A r \in 1..Len(reqs') :
    (current' = r /\ current # r) =>
      /\ current # None => ~(outcome'[current].kind = "pending")
      /\ r = IF queue = <<>> THEN Len(reqs) + 1 ELSE Head(queue)

\* C2: at most one request is current (handed to the transport and not yet
\* settled), it is the one BusManager.current names, it is not in the
\* queue, no queued request has been handed to the transport, and a
\* queued request is made current only when no request is current.
C2_AtMostOneCurrent == []C2_CurrentState /\ [][C2_CurrentStep]_vars

\* a request is current while another waits in the queue
C2_Witness == current # None /\ queue # <<>>

\* C3: sendCommand is called for the requests in the order of their
\* request() calls (requests are numbered in that order).
C3_FifoOrder == \A i \in 1..Len(sendOrder) : sendOrder[i] = i

\* all three requests were sent, the first ended by a send failure, the
\* second by a timeout
C3_Witness ==
  /\ Len(sendOrder) = MaxFifoRequests
  /\ SendFailed(outcome[1])
  /\ TimedOut(outcome[2])

\* ------------------------------------------------------------------------
\* C4: timeouts
\* ------------------------------------------------------------------------
\* request r is rejected with a timeout error by this step
TimesOut(r) == Unsettled(r) /\ TimedOut(outcome'[r])

\* C4: a request is rejected with a timeout error only when the timer
\* armed for it after its own transmission has run its own timeoutMs, the
\* error names that request's id and timeoutMs, and the head of the queue
\* (if any) becomes current.
C4_TimeoutOnlyAfterOwnDeadline ==
  [][\A r \in Requests :
       TimesOut(r) =>
         /\ timer[r] = 0
         /\ send[r].pc = "returned"
         /\ outcome'[r].error = TimeoutError(reqs[r].id, reqs[r].timeoutMs)
         /\ current' = QueueHead]_vars

\* a request timed out on its own timer and the next one became current
C4_Witness ==
  \E r \in Requests :
    /\ TimedOut(outcome[r])
    /\ outcome[r].error = TimeoutError(reqs[r].id, reqs[r].timeoutMs)
    /\ current = r + 1

\* ------------------------------------------------------------------------
\* C5, C6, C9: replies
\* ------------------------------------------------------------------------
\* message m arrives while a request it correlates with is current
MatchingReply(m) ==
  /\ Deliver(FALSE, m)
  /\ current # None
  /\ Correlates(m, reqs[current].id)

\* message m arrives while a request is current and does not carry that
\* request's id
OtherMessage(m) ==
  /\ Deliver(FALSE, m)
  /\ current # None
  /\ ~Correlates(m, reqs[current].id)

\* C5: when a message whose correlation id matches the current request's
\* id after normalization arrives, the current request resolves with that
\* message, its timeout timer is cancelled and the head of the queue (if
\* any) becomes current.
C5_MatchingReplyResolves ==
  [][\A m \in Messages :
       MatchingReply(m) =>
         /\ outcome'[current] = Resolved(m)
         /\ timer'[current] = Off
         /\ current' = QueueHead
         /\ queue' = IF queue = <<>> THEN queue ELSE Tail(queue)]_vars

\* a request was transmitted, its timer armed, then it was resolved by its
\* reply and the timer cancelled, and the request queued behind it is
\* current
C5_Witness ==
  \E r \in Requests :
    /\ send[r].pc = "returned"
    /\ outcome[r].kind = "resolved"
    /\ Correlates(outcome[r].value, reqs[r].id)
    /\ timer[r] = Off
    /\ current = r + 1

\* C6: a request is resolved only by a message that arrives while it is
\* current and carries its id; a message that arrives while no request is
\* current, or that does not carry the current request's id, resolves
\* nothing, and is not kept for a request that becomes current later.
C6_OnlyCurrentResolved ==
  [][/\ \A r \in 1..Len(reqs') :
          (outcome'[r].kind = "resolved" /\ (r \in Requests => Unsettled(r)))
            => /\ r \in Requests
               /\ current = r
               /\ Correlates(outcome'[r].value, reqs[r].id)
               /\ Deliver(FALSE, outcome'[r].value)
     /\ \A m \in Messages :
          (Deliver(FALSE, m) /\ (current = None \/ OtherMessage(m))) =>
            UNCHANGED <<outcome, current, queue>>]_vars

\* a reply carrying the id of a queued request was dropped; that request
\* is now current, transmitted, and still waits for its reply
C6_Witness ==
  /\ ignored = "queued"
  /\ current = 2
  /\ Unsettled(2)
  /\ timer[2] > 0

\* C9: a message whose correlation id is absent or does not match the
\* current request leaves the current request, the queue and every armed
\* timeout timer as they are.
C9_OtherMessageChangesNothing ==
  [][\A m \in Messages :
       OtherMessage(m) =>
         UNCHANGED <<current, queue, timer, outcome, send, reqs>>]_vars

\* a message was ignored while the current request's timer was running,
\* and the timer still runs
C9_Witness ==
  /\ ignored \in {"busy", "queued"}
  /\ current # None
  /\ Unsettled(current)
  /\ timer[current] > 0

\* ------------------------------------------------------------------------
\* C7: id assignment
\* ------------------------------------------------------------------------
\* k in 0..999 written with exactly three decimal digits
ThreeDigits(k) ==
  <<Digits[(k \div 100) + 1], Digits[((k \div 10) % 10) + 1],
    Digits[(k % 10) + 1]>>

\* C7: the n-th request submitted without an id (n = 0, 1, 2, ...) gets
\* the id n mod 1000 written with three digits; a request submitted with
\* an id keeps it and does not advance the counter.
C7_IdAssignment ==
  /\ nextIdValue = assigned % IdModulus
  /\ \A r \in Requests :
       /\ ~reqs[r].given => reqs[r].id = ThreeDigits(reqs[r].n % IdModulus)
       /\ reqs[r].given => reqs[r].id = reqs[r].payloadId
       /\ LET after == reqs[r].n + IF reqs[r].given THEN 0 ELSE 1
          IN IF r = Len(reqs) THEN assigned = after
             ELSE reqs[r + 1].n = after

\* the ids wrapped around: "999", then a request with its own id, then
\* "000" for the 1000th assignment
C7_Witness ==
  /\ Len(reqs) = 3
  /\ ~reqs[1].given /\ reqs[1].id = <<"9", "9", "9">>
  /\ reqs[2].given /\ reqs[2].id = <<"0", "0", "5">>
  /\ ~reqs[3].given /\ reqs[3].n = IdModulus /\ reqs[3].id = <<"0", "0", "0">>

\* ------------------------------------------------------------------------
\* C8: id comparison
\* ------------------------------------------------------------------------
NumericLooking(str) == str # <<>> /\ \A i \in 1..Len(str) : IsDigit(str[i])

RECURSIVE WithoutLeadingZeros(_)
\* a string of digits without its leading zeros; "0" for zeros only
WithoutLeadingZeros(str) ==
  IF Len(str) > 1 /\ Head(str) = "0" THEN WithoutLeadingZeros(Tail(str))
  ELSE str

\* the normalized form of the claim: leading zeros are stripped from
\* numeric-looking strings, other strings are compared as they are
Canonical(value) ==
  LET str == Trim(StringOf(value))
  IN IF NumericLooking(str) THEN WithoutLeadingZeros(str) ELSE str

\* both ids are present and their normalized forms are equal
SameId(a, b) ==
  /\ a.t # "undefined" /\ Trim(StringOf(a)) # <<>>
  /\ b.t # "undefined" /\ Trim(StringOf(b)) # <<>>
  /\ Canonical(a) = Canonical(b)

\* C8: ids are compared after stripping leading zeros from numeric-looking
\* strings ("5" and 5 match "005", "0" matches "000"): a reply resolves the
\* current request iff the normalized forms of the two ids are equal.
C8_ResolvesIffNormalizedEqual ==
  [][\A m \in NormMessages :
       (Deliver(FALSE, m) /\ current # None) =>
         (outcome'[current] = Resolved(m)
            <=> SameId(CorrelationField(m), Str(reqs[current].id)))]_vars

\* ------------------------------------------------------------------------
\* C10: direction lines
\* ------------------------------------------------------------------------
\* the driver-enable line (or the single DE/RE line) exists
HasDriverLine == gpio.de # Off \/ gpio.legacy # Off

\* receive direction: driver-enable low, receiver-enable active
RxDirection ==
  /\ gpio.de # Off => gpio.de = 0
  /\ gpio.de = Off /\ gpio.legacy # Off => gpio.legacy = 0
  /\ gpio.re # Off =>
       gpio.re = IF options.receiverEnableActiveLow THEN 0 ELSE 1

\* transmit direction: driver-enable high, receiver-enable inactive
TxDirection ==
  /\ gpio.de # Off => gpio.de = 1
  /\ gpio.de = Off /\ gpio.legacy # Off => gpio.legacy = 1
  /\ gpio.re # Off =>
       gpio.re = IF options.receiverEnableActiveLow THEN 1 ELSE 0

\* the write/drain part of the sendRaw call for request r ends in this step
LeavesTry(r) ==
  send[r].pc \in {"write", "drain"} /\ send'[r].pc \notin {"write", "drain"}

\* C10: every sendRaw call that has asserted the transmit direction puts
\* the lines back to the receive direction when its write and flush end,
\* by success, write error or flush error alike, before it returns or
\* throws.
C10_ReceiveDirectionRestored ==
  [][\A r \in Requests :
       LeavesTry(r) =>
         /\ RxDirection'
         /\ send'[r].pc \in {"sleepOk", "sleepErr"}]_vars

\* a sendRaw call whose write or flush failed waits out the turnaround
\* delay with the lines in the receive direction
C10_Witness ==
  \E r \in Requests :
    /\ send[r].pc = "sleepErr"
    /\ HasDriverLine
    /\ RxDirection
    /\ ~TxDirection

\* ------------------------------------------------------------------------
\* Vocabulary of the link properties
\* ------------------------------------------------------------------------
\* auto-reconnect is enabled and destroy() has not been called
Reconnecting == options.autoReconnect /\ ~destroyed

\* this step is the "close" event of port p, which has the transport's
\* listeners
ClosedPort(p) ==
  /\ ports[p].isOpen
  /\ ports[p].listening
  /\ p # closing
  /\ ~ports'[p].isOpen

\* this step is the failure of the port.open that caller kind issued
FailedOpen(p, kind) ==
  /\ ports[p].pending
  /\ ports[p].by.kind = kind
  /\ ~ports'[p].pending
  /\ ~ports'[p].isOpen

\* this step is the success of a port.open
SucceededOpen(p) == ports[p].pending /\ ~ports'[p].pending /\ ports'[p].isOpen

ErrorEmitted == \E i \in 1..Len(emitted') : emitted'[i].ev = "error"

StatusEmitted(st) ==
  \E i \in 1..Len(emitted') : emitted'[i] = [ev |-> "status", arg |-> st]

\* C11 as stated: after a port close with auto-reconnect enabled and the
\* transport not destroyed the reconnect timer is due exactly
\* reconnectIntervalMs after the close; every failed reconnect attempt arms
\* it reconnectIntervalMs ahead again and emits an error event.
C11_ReconnectExactlyAfterInterval ==
  [][\A p \in DOMAIN ports :
       Reconnecting =>
         /\ ClosedPort(p) =>
              reconnectTimer' = options.reconnectIntervalMs
         /\ FailedOpen(p, "reconnect") =>
              /\ reconnectTimer' = options.reconnectIntervalMs
              /\ ErrorEmitted]_vars

\* C11: after a port close with auto-reconnect enabled and the transport
\* not destroyed a reconnect timer is armed and due at most
\* reconnectIntervalMs after the close, exactly reconnectIntervalMs after
\* it unless a timer was armed already; every failed reconnect attempt
\* leaves the timer armed in the same way (there is no limit on the number
\* of attempts), emits an error event and settles no request.
C11_ReconnectWithinInterval ==
  [][\A p \in DOMAIN ports :
       Reconnecting /\ (ClosedPort(p) \/ FailedOpen(p, "reconnect")) =>
         /\ reconnectTimer' \in 0..options.reconnectIntervalMs
         /\ reconnectTimer = Off =>
              reconnectTimer' = options.reconnectIntervalMs
         /\ reconnectTimer # Off => reconnectTimer' = reconnectTimer
         /\ FailedOpen(p, "reconnect") =>
              /\ ErrorEmitted
              /\ outcome' = outcome]_vars

\* a reconnect attempt has just failed (only then is the error emitted
\* twice in a row after the status) and the next attempt is a whole
\* interval ahead
C11_Witness ==
  /\ Reconnecting
  /\ status = "fail"
  /\ emitted = <<[ev |-> "status", arg |-> "fail"],
                 [ev |-> "error", arg |-> OpenError],
                 [ev |-> "error", arg |-> OpenError]>>
  /\ reconnectTimer = options.reconnectIntervalMs

\* the transport has been asked to open the port at least once
EverOpened == initCalled \/ sendOrder # <<>>

OpenInProgress == \E p \in DOMAIN ports : ports[p].pending

\* C12: with auto-reconnect enabled and the transport not destroyed, once
\* the port has been asked for the transport is never in status fail or
\* disconnected with no reconnect timer armed and no open attempt in
\* progress.
C12_NeverRestsDisconnected ==
  (Reconnecting /\ EverOpened /\ status \in {"fail", "disconnected"}) =>
    (reconnectTimer # Off \/ OpenInProgress)

\* C13: once destroy() has been called no port.open is issued, no port
\* becomes open and the link status does not become connected, whatever
\* the step (a later send, a queued request, an open already in progress).
C13_DestroyIsTerminal ==
  [][destroyed =>
       /\ \A p \in DOMAIN ports :
            /\ ports'[p].pending => ports[p].pending
            /\ ports'[p].isOpen => ports[p].isOpen
       /\ status' = "connected" => status = "connected"]_vars

\* this step is the call of destroy() or the rest of it after port.close
DestroyStep ==
  \/ ~destroyed /\ destroyed'
  \/ closing # None /\ closing' = None

\* this step settles request r by the expiry of the timer armed for it
OwnTimeout(r) ==
  /\ timer[r] = 0
  /\ timer'[r] = Off
  /\ current = r
  /\ outcome'[r] = Rejected(TimeoutError(reqs[r].id, reqs[r].timeoutMs))

\* this step settles request r by a message that carries its id
CorrelatedReply(r) ==
  /\ current = r
  /\ outcome'[r].kind = "resolved"
  /\ Correlates(outcome'[r].value, reqs[r].id)

\* this step settles request r because its own sendCommand call failed
OwnSendFailure(r) ==
  /\ current = r
  /\ send[r].pc \in {"open", "write", "drain", "sleepErr"}
  /\ send'[r].pc = "threw"
  /\ outcome'[r] = Rejected(SendError(r))

\* the first request is current from its request() call until it is
\* settled, so after destroy() it was in flight when destroy() was called
InFlightAtDestroy(r) == r = 1 /\ r \in Requests /\ destroyed /\ Unsettled(r)

PortErrorEvent ==
  /\ Len(emitted') > 0
  /\ emitted'[1] = [ev |-> "error", arg |-> PortFault]

\* this step closes an open port
PortCloses == \E p \in DOMAIN ports : ports[p].isOpen /\ ~ports'[p].isOpen

\* this step is the failure of a port.open (the request it fails may be
\* followed at once by the next one, which issues an open of its own)
AnyFailedOpen ==
  \E p \in DOMAIN ports :
    ports[p].pending /\ Commit(openPortResume(Cur({}), p, FALSE))

\* C15 as stated: the link status becomes connected only by a successful
\* port open, disconnected only by a port close and fail only by a port
\* error or a failed open; a successful open, the close of the port the
\* transport listens to, a port error and a failed open each set it so.
C15_StatusFollowsLifecycle ==
  [][/\ status' # status =>
          /\ status' = "connected" => \E p \in DOMAIN ports : SucceededOpen(p)
          /\ status' = "disconnected" => PortCloses
          /\ status' = "fail" => AnyFailedOpen \/ PortErrorEvent
     /\ \A p \in DOMAIN ports :
          /\ SucceededOpen(p) => status' = "connected"
          /\ ClosedPort(p) => status' = "disconnected"
     /\ AnyFailedOpen => status' = "fail"
     /\ PortErrorEvent => status' = "fail"]_vars

\* this step is the end of closePort in destroy(), after port.close has
\* called back with or without an error
ClosePortEnds == closing # None /\ closing' = None

\* C15: the link status becomes connected only by a successful port open,
\* disconnected only by a port close or by the end of destroy()'s
\* closePort, and fail only by a port error or a failed open; a successful
\* open, the close of the port the transport listens to, a port error and
\* a failed open each set it so.
C15_StatusFollowsLifecycleOrDestroy ==
  [][/\ status' # status =>
          /\ status' = "connected" => \E p \in DOMAIN ports : SucceededOpen(p)
          /\ status' = "disconnected" => PortCloses \/ ClosePortEnds
          /\ status' = "fail" => AnyFailedOpen \/ PortErrorEvent
     /\ \A p \in DOMAIN ports :
          /\ SucceededOpen(p) => status' = "connected"
          /\ ClosedPort(p) => status' = "disconnected"
     /\ AnyFailedOpen => status' = "fail"
     /\ PortErrorEvent => status' = "fail"
     /\ ClosePortEnds => status' = "disconnected"]_vars

\* the open issued by the reconnect timer's callback has just succeeded
\* and set the status to connected
C15_Witness ==
  /\ status = "connected"
  /\ emitted = <<[ev |-> "status", arg |-> "connected"]>>
  /\ \E p \in DOMAIN ports :
       ports[p].isOpen /\ ports[p].by.kind = "reconnect"

\* this step is the failure of the port.write of some send
WriteError ==
  \E r \in Requests :
    send[r].pc = "write" /\ send'[r].pc \in {"sleepErr", "threw"}

\* C16: a step in which a port.open fails, a port.write fails or the port
\* reports an error leaves the link status fail, emits an error event and,
\* with auto-reconnect enabled and the transport not destroyed, leaves the
\* reconnect timer armed.
C16_ErrorsSetFailAndReconnect ==
  [][AnyFailedOpen \/ WriteError \/ PortErrorEvent =>
       /\ status' = "fail"
       /\ ErrorEmitted
       /\ Reconnecting => reconnectTimer' # Off]_vars

\* ------------------------------------------------------------------------
\* Vocabulary of the monitor properties
\* ------------------------------------------------------------------------
remote == RS485_STATUS.remote

\* this step is a run of the monitor's interval callback
MonitorRuns ==
  heartbeatMonitorTimer = 0 /\ heartbeatMonitorTimer' = HeartbeatInterval

\* the remote counts as connected and its last hello or heartbeat is more
\* than the heartbeat timeout ago
Stale ==
  /\ remote.connected
  /\ remote.lastHeartbeat # None
  /\ now - remote.lastHeartbeat > HEARTBEAT_TIMEOUT_MS

\* C17: a run of the monitor that finds the remote connected and its last
\* hello or heartbeat more than the heartbeat timeout ago sets
\* remote.connected to false, records disconnectedAt, sets the reason
\* "Remote heartbeat timeout" and turns a link status connected into
\* disconnected; a run that finds the remote not connected, or the last
\* heartbeat at most the timeout ago, changes nothing.
C17_MonitorFlagsStaleRemote ==
  [][MonitorRuns =>
       IF Stale
       THEN /\ RS485_STATUS'.remote =
                 [remote EXCEPT !.connected = FALSE,
                                !.disconnectedAt = now,
                                !.reason = HeartbeatTimeoutReason]
            /\ RS485_STATUS'.status =
                 IF RS485_STATUS.status = "connected" THEN "disconnected"
                 ELSE RS485_STATUS.status
       ELSE RS485_STATUS' = RS485_STATUS]_vars

\* the monitor has just declared the remote lost: the hello is more
\* than the timeout old and the link status was taken down to disconnected
\* while the port is still connected
C17_Witness ==
  /\ ~remote.connected
  /\ remote.reason = HeartbeatTimeoutReason
  /\ remote.disconnectedAt = now
  /\ now - remote.lastHeartbeat > HEARTBEAT_TIMEOUT_MS
  /\ RS485_STATUS.status = "disconnected"
  /\ status = "connected"

IsHello(m) == m.obj /\ m.hello.t = "string"

IsHeartbeat(m) == m.obj /\ m.hello.t # "string" /\ m.heartbeat.t = "string"

\* C18: every step in which a hello message is handled, whatever the
\* state before, ends with the remote connected, the device equal to the
\* hello's identity, the speed equal to the hello's when it carries one (a
\* number) and as before otherwise, lastHeartbeat equal to now,
\* disconnectedAt, reason and the recorded error cleared and the link
\* status connected.
C18_HelloMarksConnected ==
  [][\A m \in MonitorMessages :
       IsHello(m) /\ Deliver(FALSE, m) =>
         /\ RS485_STATUS'.remote.connected
         /\ RS485_STATUS'.remote.device = m.hello
         /\ RS485_STATUS'.remote.speed =
              IF m.speed.t = "number" THEN m.speed ELSE remote.speed
         /\ RS485_STATUS'.remote.lastHeartbeat = now
         /\ RS485_STATUS'.remote.disconnectedAt = None
         /\ RS485_STATUS'.remote.reason = Undefined
         /\ RS485_STATUS'.error = Undefined
         /\ RS485_STATUS'.status = "connected"]_vars

\* a hello from "b" has just arrived on a port that had reported an error:
\* the remote is connected since now, the speed is the one an earlier
\* hello gave, and the error recorded for the port error is gone
C18_Witness ==
  /\ status = "fail"
  /\ now > 1
  /\ remote.connected
  /\ remote.device = Str(<<"b">>)
  /\ remote.speed = Num(9600)
  /\ remote.lastHeartbeat = now
  /\ remote.connectedAt = now
  /\ remote.disconnectedAt = None
  /\ remote.reason = Undefined
  /\ RS485_STATUS = [status |-> "connected", error |-> Undefined,
                     remote |-> remote]

\* no device identity is recorded (none yet, or an empty one)
NoIdentity == ~Truthy(remote.device)

\* C19: every step in which a heartbeat message is handled sets the device
\* to the heartbeat's identity if no identity is recorded and leaves the
\* device unchanged otherwise; in both cases it ends with the remote
\* connected, lastHeartbeat equal to now, disconnectedAt, reason and the
\* recorded error cleared, the link status connected and the speed as
\* before.
C19_HeartbeatKeepsIdentity ==
  [][\A m \in MonitorMessages :
       IsHeartbeat(m) /\ Deliver(FALSE, m) =>
         /\ RS485_STATUS'.remote.device =
              IF NoIdentity THEN m.heartbeat ELSE remote.device
         /\ RS485_STATUS'.remote.speed = remote.speed
         /\ RS485_STATUS'.remote.connected
         /\ RS485_STATUS'.remote.lastHeartbeat = now
         /\ RS485_STATUS'.remote.disconnectedAt = None
         /\ RS485_STATUS'.remote.reason = Undefined
         /\ RS485_STATUS'.error = Undefined
         /\ RS485_STATUS'.status = "connected"]_vars

\* a heartbeat from "c", an identity that no hello carries, has just been
\* adopted after a hello had recorded a speed and a later hello an empty
\* identity
C19_Witness ==
  /\ remote.connected
  /\ remote.device = Str(<<"c">>)
  /\ remote.speed = Num(9600)
  /\ remote.lastHeartbeat = now
  /\ RS485_STATUS.status = "connected"

\* the last event the transport emitted in this step is the change of its
\* status to st
StatusEventLast(st) ==
  /\ Len(emitted') > 0
  /\ emitted'[Len(emitted')] = [ev |-> "status", arg |-> st]

\* the texts more specific than a link-derived reason
SpecificTexts == {HeartbeatTimeoutReason, PortFault, OpenError}

\* what a step that emits "error" for a port error and then the status
\* leaves of the port error's message: it is the error and the reason
\* recorded when the status event arrives
SpecificBefore(text) ==
  IF PortErrorEvent THEN PortFault ELSE text

\* C20 as stated: when the transport's status changes to fail or
\* disconnected the monitor leaves the remote disconnected and the link
\* status equal to the new status; a more specific error and a more
\* specific reason recorded before are both kept, and otherwise the reason
\* is the link-derived one.
C20_SpecificErrorAndReasonKept ==
  [][\A st \in {"fail", "disconnected"} :
       StatusEventLast(st) =>
         /\ ~RS485_STATUS'.remote.connected
         /\ RS485_STATUS'.status = st
         /\ SpecificBefore(RS485_STATUS.error) \in SpecificTexts =>
              RS485_STATUS'.error = SpecificBefore(RS485_STATUS.error)
         /\ RS485_STATUS'.remote.reason =
              IF SpecificBefore(remote.reason) \in SpecificTexts
              THEN SpecificBefore(remote.reason) ELSE LinkReason(st)]_vars

\* C20: when the transport's status changes to fail or disconnected the
\* monitor leaves the remote disconnected, the link status equal to the
\* new status and the reason equal to the link-derived one, whatever
\* reason was recorded before; an error recorded before is kept, and the
\* link-derived text becomes the error only if none was recorded and the
\* remote was connected.
C20_SpecificErrorKept ==
  [][\A st \in {"fail", "disconnected"} :
       StatusEventLast(st) =>
         /\ ~RS485_STATUS'.remote.connected
         /\ RS485_STATUS'.status = st
         /\ RS485_STATUS'.remote.reason = LinkReason(st)
         /\ RS485_STATUS'.error =
              IF Truthy(SpecificBefore(RS485_STATUS.error))
              THEN SpecificBefore(RS485_STATUS.error)
              ELSE IF remote.connected THEN LinkReason(st)
              ELSE RS485_STATUS.error]_vars

\* the port has just closed after the monitor had declared the remote
\* lost: the error still says "Remote heartbeat timeout", the reason is
\* the link's
C20_Witness ==
  /\ emitted = <<[ev |-> "status", arg |-> "disconnected"]>>
  /\ ~remote.connected
  /\ remote.reason = LinkReason("disconnected")
  /\ RS485_STATUS.error = HeartbeatTimeoutReason
  /\ RS485_STATUS.status = "disconnected"

\* ------------------------------------------------------------------------
\* C21: inbound lines
\* ------------------------------------------------------------------------
\* the chunks of Lines that JSON.parse accepts once trimmed
JsonLines == {ReplyLine, HelloLine, NumberLine}

Event(ev) == \E i \in 1..Len(emitted) : emitted[i].ev = ev

LineEvent(text) ==
  \E i \in 1..Len(emitted) :
    emitted[i].ev = "line" /\ emitted[i].arg = Str(text)

BusUntouched ==
  UNCHANGED <<queue, current, outcome, timer, send, sendOrder>>

\* a chunk that is not JSON leaves no trace but its "data"/"line" events
NotAnError ==
  /\ ~Event("message")'
  /\ ~Event("error")'
  /\ ~Event("status")'
  /\ status' = status
  /\ reconnectTimer' = reconnectTimer
  /\ BusUntouched

\* C21 as stated: every non-empty inbound line is emitted as a "line"
\* event; a "message" event is emitted for it iff it parses as JSON; a
\* line that is not valid JSON gives no "message" event, no "error" event
\* and no change of the link status.
C21_EveryNonEmptyLineEmitted ==
  [][\A data \in Lines :
       IncomingData(FALSE, {data}) =>
         /\ data # <<>> => Event("line")'
         /\ Event("message")' <=> data \in JsonLines
         /\ data \notin JsonLines => NotAnError]_vars

\* C21: every inbound line that is not blank (non-empty after trimming)
\* is emitted, trimmed, as a "line" event, and a blank one is not; a
\* "message" event is emitted for a line iff it parses as JSON; a line
\* that is not valid JSON gives no "message" event, no "error" event and
\* no change of the link status.
C21_EveryNonBlankLineEmitted ==
  [][\A data \in Lines :
       IncomingData(FALSE, {data}) =>
         /\ Trim(data) # <<>> => LineEvent(Trim(data))'
         /\ Trim(data) = <<>> => ~Event("line")'
         /\ Event("message")' <=> data \in JsonLines
         /\ data \notin JsonLines => NotAnError]_vars

\* a malformed line has arrived while a request waits for its reply
C21_Witness ==
  /\ LineEvent(CutLine)
  /\ ~Event("message")
  /\ current # None
  /\ timer[current] # Off
  /\ status = "connected"

\* ------------------------------------------------------------------------
\* C22: the member a reply is correlated by
\* ------------------------------------------------------------------------
\* the members in the order they are read
CorrelationMembers(m) == <<m.replyTo, m.id, m.reply_to, m.responseTo>>

Present(v) == v.t # "undefined"

\* m is correlated with id by its first present member, and by no other
MatchesByFirstPresent(m, id) ==
  \E k \in 1..4 :
    /\ Present(CorrelationMembers(m)[k])
    /\ \A j \in 1..(k - 1) : ~Present(CorrelationMembers(m)[j])
    /\ normalizeId(CorrelationMembers(m)[k]) # Undefined
    /\ normalizeId(CorrelationMembers(m)[k]) = normalizeId(Str(id))

\* the chunk data is what handleIncoming has just been called with
Arrived(data) ==
  emitted # <<>> /\ emitted[1] = [ev |-> "data", arg |-> Str(data)]

\* the lines of CorrelationLines that answer request "000"
AnswersFirstRequest ==
  {ByReplyTo, ById, ByReply_to, ByResponseTo, NullThenId, ResponseToFirst}

\* C22: the correlation id of an inbound message is the first present
\* (non-null) of replyTo, id, reply_to, responseTo, in that order, and only
\* that member is compared with the current request's id: the current
\* request is resolved by a message iff that member matches, so a message
\* whose replyTo mismatches is not matched through its id member.
C22_FirstPresentMemberOnly ==
  [][\A data \in CorrelationLines :
       (current # None /\ Arrived(data)') =>
         LET m == ToMessage(JSONparse(Trim(data)).v)
             id == reqs[current].id
         IN /\ outcome'[current] = Resolved(m)
                 <=> MatchesByFirstPresent(m, id)
            /\ ~MatchesByFirstPresent(m, id)
                 => outcome'[current] = Pending /\ current' = current
            /\ id = <<"0", "0", "0">>
                 => (MatchesByFirstPresent(m, id)
                       <=> data \in AnswersFirstRequest)]_vars

\* a message whose replyTo mismatches and whose id matches has arrived,
\* and the current request still waits
C22_Witness ==
  /\ LineEvent(MismatchThenId)
  /\ Event("message")
  /\ current # None
  /\ reqs[current].id = <<"0", "0", "0">>
  /\ outcome[current] = Pending

\* ------------------------------------------------------------------------
\* C23: shutdown
\* ------------------------------------------------------------------------
GpioLines == {"legacy", "de", "re"}

\* destroy() has returned
DestroyFinished == destroyed /\ closing = None

\* this step is the failure of the port.close that destroy() awaits
FailedClose == ClosePortEnds /\ ports'[closing].isOpen

\* this step ends destroy()
DestroyEnds == ~DestroyFinished /\ DestroyFinished'

\* C23: destroy() finishes whether port.close succeeds or fails: the
\* callback of port.close ends it either way, a failed close is emitted as
\* an "error" event, the reconnect timer is stopped by destroy() and stays
\* stopped, and when destroy() ends every direction line that was
\* configured has been driven low and released.
C23_ShutdownCompletes ==
  /\ [](destroyed => DestroyFinished \/ ENABLED CloseDone)
  /\ [][/\ ClosePortEnds => DestroyFinished'
        /\ FailedClose =>
             \E i \in 1..Len(emitted') :
               emitted'[i] = [ev |-> "error", arg |-> CloseError]
        /\ destroyed' => reconnectTimer' = Off
        /\ DestroyEnds =>
             \A l \in GpioLines :
               /\ gpio'[l] = Off
               /\ gpio[l] # Off => released'[l] = 0
        /\ DestroyFinished =>
             \A l \in GpioLines :
               gpio'[l] = Off /\ released'[l] = released[l]]_vars

\* destroy() has ended by a failed close during a transmission, with the
\* lines that were driven for transmit released low
C23_Witness ==
  /\ DestroyFinished
  /\ \E i \in 1..Len(emitted) :
       emitted[i] = [ev |-> "error", arg |-> CloseError]
  /\ \E r \in 1..Len(reqs) : send[r].pc \in {"write", "drain"}
  /\ released.de = 0
  /\ released.re = 0

\* ------------------------------------------------------------------------
\* C24: direction lines that fail
\* ------------------------------------------------------------------------
\* this step is a call of init()
InitStep == ~initCalled /\ initCalled'

\* a port.open is awaited
OpenAwaited == port # None /\ ports[port].pending

\* C24: a failure to configure a direction line or to write a level never
\* stops the message layer: init() goes on to open the port, a sendRaw call
\* goes on to write (once the port is open) and to flush, and a send fails
\* only by its port.open, write or drain.
C24_DirectionFailureNeverStops ==
  [][/\ InitStep => OpenAwaited'
     /\ \A r \in 1..Len(reqs) :
          /\ send[r].pc = "none" /\ send'[r].pc # "none" =>
               send'[r].pc \in {"open", "write"}
          /\ send[r].pc = "open" /\ send'[r].pc # "open" =>
               send'[r].pc \in {"write", "threw"}
          /\ send[r].pc = "write" /\ send'[r].pc # "write" =>
               send'[r].pc \in {"drain", "sleepErr"}]_vars

\* ------------------------------------------------------------------------
\* C25: failed transmissions
\* ------------------------------------------------------------------------
\* this step is sendCommand throwing for request r
SendThrows(r) == InFlight(r) /\ send'[r].pc = "threw"

\* C25: when sendCommand throws for a request, that request (until then
\* pending) is rejected with the error thrown, no timeout timer is armed
\* for it and the head of the queue becomes current; no request is ever
\* rejected with the error of another request's transmission.
C25_SendFailureRejectsItsRequest ==
  [][\A r \in Requests :
       /\ SendThrows(r) =>
            /\ outcome[r] = Pending
            /\ outcome'[r] = Rejected(SendError(r))
            /\ timer'[r] = Off
            /\ current' = QueueHead
       /\ SendFailed(outcome'[r]) => outcome'[r].error.call = r]_vars

\* ------------------------------------------------------------------------
\* C26: what changes the remote's status
\* ------------------------------------------------------------------------
\* the lines of FrameLines that are hello or heartbeat messages
RemoteLines == {HelloLine, BeatLine}

\* this step emits a "status" event other than connected, or an "error"
\* event
LinkDowngraded ==
  \E i \in 1..Len(emitted') :
    \/ emitted'[i].ev = "error"
    \/ emitted'[i].ev = "status" /\ emitted'[i].arg # "connected"

\* this step is an operation of the BusManager: a request() call, the
\* expiry of a request's timer, the end of a sendCommand call
BusOperation ==
  \/ Len(reqs') = Len(reqs) + 1
  \/ \E r \in Requests :
       \/ timer[r] = 0 /\ timer'[r] = Off
       \/ InFlight(r) /\ send'[r].pc \in {"returned", "threw"}

\* C26: RS485_STATUS.remote changes only in a step that handles a hello or
\* heartbeat message, in a run of the monitor that finds the remote stale,
\* or in a step that emits a status event other than connected or an error
\* event; the operations of the BusManager and every other inbound line
\* leave it unchanged unless the step emits such an event.
C26_RemoteChangesOnlyByMonitor ==
  [][/\ remote' # remote =>
          \/ \E data \in RemoteLines : Arrived(data)'
          \/ MonitorRuns /\ Stale
          \/ LinkDowngraded
     /\ BusOperation /\ ~LinkDowngraded => remote' = remote
     /\ \A data \in FrameLines \ RemoteLines :
          Arrived(data)' => remote' = remote /\ ~LinkDowngraded]_vars

\* a reply has resolved the request while the remote counts as connected
C26_Witness ==
  /\ Arrived(ReplyLine)
  /\ \E r \in Requests : outcome[r].kind = "resolved"
  /\ Event("message")
  /\ remote.connected
  /\ remote.lastHeartbeat # None
  /\ remote.lastHeartbeat < now

\* ------------------------------------------------------------------------
\* C27: the turnaround delay
\* ------------------------------------------------------------------------
Settling(r) == send[r].pc \in {"sleepOk", "sleepErr"}

\* C27: a sendRaw call that has written starts the turnaround delay when it
\* has put the lines back to receive, after a successful flush and after a
\* failed write or flush alike; the delay only runs down with time, and the
\* call returns (after success) or throws (after failure) only when it has
\* run out.  A sendRaw call whose port.open fails throws at once: it
\* has not written, and the step leaves the direction lines alone, unless
\* the rejection starts the next request's send on an open port in the
\* same step.
C27_TurnaroundBeforeReturn ==
  [][\A r \in Requests :
       /\ LeavesTry(r) =>
            /\ Settling(r)'
            /\ send'[r].sleep = options.turnaroundDelayMs
            /\ RxDirection'
       /\ Settling(r) /\ send'[r] # send[r] =>
            \/ /\ send[r].sleep > 0
               /\ send'[r] = [send[r] EXCEPT !.sleep = @ - 1]
            \/ /\ send[r].sleep = 0
               /\ send'[r].pc = IF send[r].pc = "sleepOk" THEN "returned"
                                ELSE "threw"
       /\ send[r].pc # "returned" /\ send'[r].pc = "returned" =>
            send[r].pc = "sleepOk" /\ send[r].sleep = 0
       /\ send[r].pc # "threw" /\ send'[r].pc = "threw" =>
            \/ send[r].pc = "sleepErr" /\ send[r].sleep = 0
            \/ /\ send[r].pc = "open"
               /\ \/ gpio' = gpio
                  \/ \E q \in Requests \ {r} :
                       send[q].pc = "none" /\ send'[q].pc = "write"]_vars

\* a sendRaw call whose write or flush failed has waited out the delay in
\* the receive direction and is about to throw
C27_Witness ==
  \E r \in Requests :
    /\ send[r].pc = "sleepErr"
    /\ send[r].sleep = 0
    /\ options.turnaroundDelayMs > 0
    /\ HasDriverLine
    /\ RxDirection

\* ------------------------------------------------------------------------
\* C28: every request is settled
\* ------------------------------------------------------------------------
\* C28: every request made is eventually resolved or rejected, provided
\* every sendCommand call eventually returns or throws and every armed
\* timer eventually fires.
C28_EveryRequestSettled ==
  \A r \in 1..MaxRequests :
    (r \in Requests) ~> (r \in Requests /\ ~Unsettled(r))

\* the last request has waited in the queue and has been settled after
\* the one before it
C28_Witness ==
  /\ Len(reqs) = MaxRequests
  /\ \A r \in Requests : ~Unsettled(r)
  /\ sendOrder = [r \in 1..MaxRequests |-> r]
  /\ TimedOut(outcome[MaxRequests])

\* ------------------------------------------------------------------------
\* C29: the timeout timer
\* ------------------------------------------------------------------------
Armed == {r \in Requests : timer[r] # Off}

\* C29: an armed timeout timer belongs to the current request, which is
\* unsettled, so no timer of a settled request is armed; at most one
\* timeout timer is armed at a time.
C29_TimerBelongsToCurrent ==
  /\ \A r \in Armed : current = r /\ Unsettled(r)
  /\ Cardinality(Armed) <= 1

\* ------------------------------------------------------------------------
\* C30: a request is settled once
\* ------------------------------------------------------------------------
\* C30: a request that has been resolved or rejected is never resolved or
\* rejected again: the request resolveCurrent would settle next is an
\* unsettled one, a queued request is unsettled, and no step (a later
\* matching message, a late timer expiry, a late send failure) changes
\* the outcome of a settled request.
C30_SettledAtMostOnce ==
  /\ [](/\ current # None => Unsettled(current)
        /\ \A i \in 1..Len(queue) : Unsettled(queue[i]))
  /\ [][\A r \in Requests :
          ~Unsettled(r) => outcome'[r] = outcome[r]]_vars

\* a request was resolved by a reply that came during its own send, that
\* send has failed afterwards, and the request is still resolved
C30_Witness ==
  \E r \in Requests :
    /\ outcome[r].kind = "resolved"
    /\ send[r].pc = "threw"

\* ------------------------------------------------------------------------
\* C31: the reconnect timer
\* ------------------------------------------------------------------------
\* the events of a failed port.open that the reconnect timer's callback
\* issued: setStatus("fail", err), then the callback's catch
FailedReconnectEvents ==
  << [ev |-> "status", arg |-> "fail"], [ev |-> "error", arg |-> OpenError],
     [ev |-> "error", arg |-> OpenError] >>

\* C31: a reconnect timer is armed only while auto-reconnect is enabled and
\* destroy() has not been called, also when an open attempt that was in
\* progress at destroy time fails afterwards; and at most one is armed:
\* no step starts a timer while one is running (the time a running timer
\* has left never grows).
C31_OneReconnectTimerWhileReconnecting ==
  /\ [](reconnectTimer # Off => options.autoReconnect /\ ~destroyed)
  /\ [][reconnectTimer # Off /\ reconnectTimer' # Off =>
          reconnectTimer' <= reconnectTimer]_vars

\* destroy() has been called with auto-reconnect enabled, the open attempt
\* of the reconnect timer's callback, in progress then, has just failed,
\* and no timer is armed
C31_Witness ==
  /\ destroyed
  /\ options.autoReconnect
  /\ emitted = FailedReconnectEvents
  /\ status = "fail"
  /\ reconnectTimer = Off

\* ------------------------------------------------------------------------
\* C32: the remote counted as connected
\* ------------------------------------------------------------------------
\* C32: while remote.connected is true, lastHeartbeat is set,
\* disconnectedAt and reason are unset, RS485_STATUS holds no error and
\* its link status is connected.
C32_ConnectedRemoteIsClean ==
  remote.connected =>
    /\ remote.lastHeartbeat # None
    /\ remote.disconnectedAt = None
    /\ remote.reason = Undefined
    /\ RS485_STATUS.error = Undefined
    /\ RS485_STATUS.status = "connected"

\* a hello or heartbeat has arrived on a port that reported an error
\* before: the transport's own status is still fail, the remote counts as
\* connected again
C32_Witness ==
  /\ remote.connected
  /\ status = "fail"
  /\ remote.connectedAt > 1

====
